---- MODULE Spec2Model ----
(***************************************************************************)
(* Typed command / parameter model and workflow interpreter of sciborg.    *)
(*                                                                         *)
(*   core/parameter/base.py   Parameter, ParameterModel                    *)
(*   core/command/base.py     BaseRunCommand, BaseInfoCommand,             *)
(*                            BaseDriverCommand                            *)
(*   core/workflow/base.py    BaseDriverWorkflow                           *)
(*   core/library/base.py     BaseMicroservice, BaseCommandLibrary         *)
(*   utils/interpreter/base.py BaseCommandInterpreter                      *)
(*                                                                         *)
(* The state is the mutable state of the Driver Commands registered in one *)
(* driver library: the working Parameter objects (_parameters) and the     *)
(* mutable attributes of the ParameterModel objects (parameters).  Every   *)
(* public operation is one action; what the caller of the operation can    *)
(* observe (exception, callable invocations, return value, globals) is     *)
(* recorded in the variable last.                                          *)
(***************************************************************************)
EXTENDS Integers, Sequences, FiniteSets, TLC

VARIABLES
    wparams,    \* BaseDriverCommand._parameters : command -> name -> Parameter
    pmodels,    \* BaseDriverCommand.parameters  : command -> name -> ParameterModel (mutable attributes)
    returns,    \* BaseCommand fields has_return, return_signature : command -> record
    last,       \* observation of the most recent operation
    library,    \* a BaseCommandLibrary: its fields microservices and _microservices
    micro,      \* a BaseMicroservice: its fields name and commands
    container,  \* a Parameter built by to_param: its ParameterModel (m) and its value
    pspec,      \* the ParameterModel the most recent construction returned, if it did
    fnargs      \* per command, the formal argument names of its bound callable

vars == <<wparams, pmodels, returns, last, library, micro, container, pspec, fnargs>>

\* the state of the registered Driver Commands
cmdvars == <<wparams, pmodels, returns>>

\* the state of the containers (library, microservice)
objvars == <<library, micro>>

\* the state of the parameter objects built outside a command
parvars == <<container, pspec>>

(***************************************************************************)
(* Values (ValueType | None).  A value is None, an int or a list of ints.  *)
(***************************************************************************)
NoneV == [t |-> "none", n |-> 0, s |-> <<>>]

IntV(n) == [t |-> "int", n |-> n, s |-> <<>>]

ListV(s) == [t |-> "list", n |-> 0, s |-> s]

\* Python dict as a function; d[k] = v on a dict
DictSet(d, k, v) == [x \in (DOMAIN d) \cup {k} |-> IF x = k THEN v ELSE d[x]]

EmptyDict == [x \in {} |-> NoneV]

(***************************************************************************)
(* Bounds of the inputs                                                    *)
(***************************************************************************)
MaxKwargs == 2      \* entries of one kwargs map

MaxSteps == 2       \* commands of one workflow

(***************************************************************************)
(* The registered driver library (the fixture every operation acts on).    *)
(*   microservice "synth" (uuid "u1"):                                     *)
(*     make(l:list[int][0,10], a:int[0,10]=5, b:int[0,10]=5)               *)
(*         has_return True, callable returns {x: a, y: b}                  *)
(*     use(p:int[0,10]=5)                                                  *)
(*         has_return True, callable returns {z: p}                        *)
(***************************************************************************)
CommandNames == {"make", "use"}

GlobalNames == {"g", "h"}

\* dict order of BaseDriverCommand.parameters / _parameters
ParamOrder(c) ==
    CASE c = "make" -> <<"l", "a", "b">>
      [] c = "use"  -> <<"p">>

ParamNames(c) == {ParamOrder(c)[i] : i \in 1..Len(ParamOrder(c))}

\* the attributes of a ParameterModel no operation assigns
ParameterModel(c, p) ==
    IF p = "l"
    THEN [is_list |-> TRUE, upper_limit |-> IntV(10), lower_limit |-> IntV(0),
          allowed_values |-> <<>>, default |-> NoneV]
    ELSE [is_list |-> FALSE, upper_limit |-> IntV(10), lower_limit |-> IntV(0),
          allowed_values |-> <<>>, default |-> IntV(5)]

\* return_signature is None or a dict; keys are the keys of the dict
SigNone == [none |-> TRUE, keys |-> {}]

SigDict(keys) == [none |-> FALSE, keys |-> keys]

\* the return_signature the fixture declares for command c
DeclaredSignature(c) ==
    CASE c = "make" -> SigDict({"x", "y"})
      [] c = "use"  -> SigDict({"z"})

\* variant of ValidateReturnSignature that leaves the signature as given
ValidateReturnSignatureKept(has_return, return_signature) == return_signature

\* validate_info_command / _validate_return_signature: the return_signature of a command
\* after its validator ran
ValidateReturnSignature(has_return, return_signature) ==
    IF ~has_return THEN SigNone ELSE return_signature

HasReturn(c) == returns[c].has_return

\* the keys of return_signature, none when it is None
ReturnSignature(c) == returns[c].return_signature.keys

\* the bound callable: the dict it returns for the keyword arguments args
Fn(c, args) ==
    CASE c = "make" -> [k \in {"x", "y"} |-> IF k = "x" THEN args["a"] ELSE args["b"]]
      [] c = "use"  -> [k \in {"z"} |-> args["p"]]

\* formal argument names of the bound callable (inspect.signature)
FnSignature(c) == fnargs[c]

\* the callables the fixture commands are registered with take exactly their parameters
DeclaredFn(c) == ParamNames(c)


(***************************************************************************)
(* ParameterModel.to_param: the validators of the generated Parameter type *)
(***************************************************************************)
SeqMember(x, s) == \E i \in 1..Len(s) : s[i] = x

\* validate_type_cast (list) / the pydantic type of `value` (scalar)
TypeCastOk(m, v) ==
    IF m.is_list THEN v.t = "list"
    ELSE v.t \in {"none", "int"}

ValidateUpperLimit(m, v) ==
    IF m.upper_limit.t = "none" THEN TRUE
    ELSE IF m.is_list THEN \A i \in 1..Len(v.s) : v.s[i] <= m.upper_limit.n
    ELSE v.t = "none" \/ ~(v.n > m.upper_limit.n)

ValidateLowerLimit(m, v) ==
    IF m.lower_limit.t = "none" THEN TRUE
    ELSE IF m.is_list THEN \A i \in 1..Len(v.s) : v.s[i] >= m.lower_limit.n
    ELSE v.t = "none" \/ ~(v.n < m.lower_limit.n)

\* variant of ValidateAllowedValues that checks the elements of lists only
ValidateAllowedValuesOfLists(m, v) ==
    IF Len(m.allowed_values) = 0 THEN TRUE
    ELSE IF m.is_list THEN \A i \in 1..Len(v.s) : SeqMember(v.s[i], m.allowed_values)
    ELSE TRUE

ValidateAllowedValues(m, v) ==
    IF Len(m.allowed_values) = 0 THEN TRUE
    ELSE IF m.is_list THEN \A i \in 1..Len(v.s) : SeqMember(v.s[i], m.allowed_values)
    ELSE v.t = "none" \/ SeqMember(v.n, m.allowed_values)

\* does the assignment `parameter.value = v` pass validation (validate_assignment=True)
ValueOk(m, v) ==
    /\ TypeCastOk(m, v)
    /\ ValidateUpperLimit(m, v)
    /\ ValidateLowerLimit(m, v)
    /\ ValidateAllowedValues(m, v)

\* the field validator of `value` that rejects v, in the order pydantic runs them: the
\* 'before' validator and the type of the field, then the validators as defined
FailedValidator(m, v) ==
    IF ~TypeCastOk(m, v) THEN "type_cast"
    ELSE IF ~ValidateUpperLimit(m, v) THEN "upper_limit"
    ELSE IF ~ValidateLowerLimit(m, v) THEN "lower_limit"
    ELSE IF ~ValidateAllowedValues(m, v) THEN "allowed_values"
    ELSE ""

\* ParameterModel.to_param()() : a fresh Parameter of the generated type
ToParam(c, p, pm) ==
    [value |-> ParameterModel(c, p).default, from_var |-> pm.from_var, var_name |-> pm.var_name]

(***************************************************************************)
(* Exceptions.  kind is the Python exception class, stage the statement    *)
(* of the operation that raised, param the parameter or key it is about.   *)
(* reverted_at names the parameter whose restoring assignment raised       *)
(* inside the except block (the exception that then reaches the caller is  *)
(* that one); it is "" when the revert loop ran to its end or never ran.   *)
(***************************************************************************)
NoError == [kind |-> "", stage |-> "", param |-> "", reverted_at |-> ""]

Error(kind, stage, param) == [kind |-> kind, stage |-> stage, param |-> param, reverted_at |-> ""]

RevertError(stage, param, at) ==
    [kind |-> "ValidationError", stage |-> stage, param |-> param, reverted_at |-> at]

Raised(e) == e.kind # ""

\* what a call returns: a result dict, or None
ResultNone == [none |-> TRUE, d |-> EmptyDict]

ResultDict(d) == [none |-> FALSE, d |-> d]

(***************************************************************************)
(* ParameterModel.validate: the construction of a ParameterModel.          *)
(* A Python value is a record: t its type; n the number of an int, of a    *)
(* bool (0 or 1), and of a float the mantissa of n * 10^exp, written       *)
(* without trailing zeros; special tells the floats nan and -0.0 apart;    *)
(* txt the characters of a str; elems the elements of a list.              *)
(* Ints and mantissas are below 10^9 in magnitude, an exponent written in  *)
(* a str has at most two digits, and a str is made of the characters of    *)
(* Ord: on these a decimal is the float Python reads from it.              *)
(***************************************************************************)
PyNone == [t |-> "none", n |-> 0, txt |-> <<>>, exp |-> 0, special |-> "", elems |-> <<>>]

PyInt(n) == [t |-> "int", n |-> n, txt |-> <<>>, exp |-> 0, special |-> "", elems |-> <<>>]

RECURSIVE TrailingZeros(_)
\* the zeros an int n # 0 ends with
TrailingZeros(n) == IF n % 10 # 0 THEN 0 ELSE 1 + TrailingZeros(n \div 10)

\* the float n * 10^exp
PyFloat(n, exp) ==
    IF n = 0
    THEN [t |-> "float", n |-> 0, txt |-> <<>>, exp |-> 0, special |-> "", elems |-> <<>>]
    ELSE [t |-> "float", n |-> n \div (10 ^ TrailingZeros(n)), txt |-> <<>>,
          exp |-> exp + TrailingZeros(n), special |-> "", elems |-> <<>>]

PyNaN == [t |-> "float", n |-> 0, txt |-> <<>>, exp |-> 0, special |-> "nan", elems |-> <<>>]

PyNegZero == [t |-> "float", n |-> 0, txt |-> <<>>, exp |-> 0, special |-> "-0", elems |-> <<>>]

PyBool(b) ==
    [t |-> "bool", n |-> IF b THEN 1 ELSE 0, txt |-> <<>>, exp |-> 0, special |-> "",
     elems |-> <<>>]

PyStr(txt) == [t |-> "str", n |-> 0, txt |-> txt, exp |-> 0, special |-> "", elems |-> <<>>]

PyList(elems) ==
    [t |-> "list", n |-> 0, txt |-> <<>>, exp |-> 0, special |-> "", elems |-> elems]

DigitChars == <<"0", "1", "2", "3", "4", "5", "6", "7", "8", "9">>

IsDigit(ch) == \E d \in 1..Len(DigitChars) : DigitChars[d] = ch

DigitValue(ch) == (CHOOSE d \in 1..Len(DigitChars) : DigitChars[d] = ch) - 1

\* the code point of a character (the characters the inputs and str() produce)
Ord(ch) ==
    CASE ch = "+" -> 43
      [] ch = "-" -> 45
      [] ch = "." -> 46
      [] IsDigit(ch) -> 48 + DigitValue(ch)
      [] ch = "F" -> 70
      [] ch = "N" -> 78
      [] ch = "T" -> 84
      [] ch = "a" -> 97
      [] ch = "b" -> 98
      [] ch = "c" -> 99
      [] ch = "e" -> 101
      [] ch = "l" -> 108
      [] ch = "n" -> 110
      [] ch = "o" -> 111
      [] ch = "r" -> 114
      [] ch = "s" -> 115
      [] ch = "u" -> 117

\* str < str: the order of the code points, a proper prefix first
RECURSIVE StrLess(_, _)
StrLess(a, b) ==
    IF Len(b) = 0 THEN FALSE
    ELSE IF Len(a) = 0 THEN TRUE
    ELSE IF Ord(Head(a)) # Ord(Head(b)) THEN Ord(Head(a)) < Ord(Head(b))
    ELSE StrLess(Tail(a), Tail(b))

Abs(n) == IF n < 0 THEN -n ELSE n

Zeros(k) == [i \in 1..k |-> "0"]

\* the decimal digits of an int n >= 0
RECURSIVE StrOfNat(_)
StrOfNat(n) ==
    IF n < 10 THEN <<DigitChars[n + 1]>>
    ELSE StrOfNat(n \div 10) \o <<DigitChars[(n % 10) + 1]>>

\* str(n) of an int
StrOfInt(n) == IF n < 0 THEN <<"-">> \o StrOfNat(-n) ELSE StrOfNat(n)

\* str(x) of a float, the repr of Python: the digits of the mantissa around the point,
\* or d.ddde+XX when the point lies more than 16 places right or more than 3 places
\* left of the first digit
StrOfFloat(x) ==
    IF x.special = "nan" THEN <<"n", "a", "n">>
    ELSE IF x.special = "-0" THEN <<"-", "0", ".", "0">>
    ELSE IF x.n = 0 THEN <<"0", ".", "0">>
    ELSE LET d == StrOfNat(Abs(x.n))
             decpt == Len(d) + x.exp
             body == IF decpt < -3 \/ decpt > 16
                     THEN <<d[1]>> \o (IF Len(d) > 1 THEN <<".">> \o Tail(d) ELSE <<>>)
                          \o <<"e", IF decpt < 1 THEN "-" ELSE "+">>
                          \o (IF Abs(decpt - 1) < 10 THEN <<"0">> ELSE <<>>)
                          \o StrOfNat(Abs(decpt - 1))
                     ELSE IF decpt <= 0 THEN <<"0", ".">> \o Zeros(-decpt) \o d
                     ELSE IF decpt < Len(d)
                     THEN SubSeq(d, 1, decpt) \o <<".">> \o SubSeq(d, decpt + 1, Len(d))
                     ELSE d \o Zeros(decpt - Len(d)) \o <<".", "0">>
         IN (IF x.n < 0 THEN <<"-">> ELSE <<>>) \o body

AllDigits(txt) == Len(txt) > 0 /\ \A i \in 1..Len(txt) : IsDigit(txt[i])

\* the number a str of digits writes, 0 for the empty str
RECURSIVE NatOfStr(_)
NatOfStr(txt) ==
    IF Len(txt) = 0 THEN 0
    ELSE 10 * NatOfStr(SubSeq(txt, 1, Len(txt) - 1)) + DigitValue(txt[Len(txt)])

Negative(txt) == Len(txt) > 0 /\ txt[1] = "-"

\* a str without its sign
Unsigned(txt) == IF Len(txt) > 0 /\ txt[1] \in {"+", "-"} THEN Tail(txt) ELSE txt

\* the place of the first ch in txt, 0 when there is none
Find(ch, txt) ==
    IF \E i \in 1..Len(txt) : txt[i] = ch
    THEN CHOOSE i \in 1..Len(txt) : txt[i] = ch /\ \A j \in 1..(i - 1) : txt[j] # ch
    ELSE 0

Before(ch, txt) == IF Find(ch, txt) = 0 THEN txt ELSE SubSeq(txt, 1, Find(ch, txt) - 1)

After(ch, txt) == IF Find(ch, txt) = 0 THEN <<>> ELSE SubSeq(txt, Find(ch, txt) + 1, Len(txt))

\* a str int() accepts: digits behind an optional sign
IsIntStr(txt) == AllDigits(Unsigned(txt))

\* int(txt)
IntOfStr(txt) == IF Negative(txt) THEN -NatOfStr(Unsigned(txt)) ELSE NatOfStr(Unsigned(txt))

IsNanStr(txt) == Len(txt) = 3 /\ txt[1] \in {"n", "N"} /\ txt[2] = "a" /\ txt[3] \in {"n", "N"}

\* digits with at most one point among them or at an end
IsDecimalStr(txt) ==
    /\ \A i \in 1..Len(txt) : IsDigit(txt[i]) \/ (txt[i] = "." /\ i = Find(".", txt))
    /\ \E i \in 1..Len(txt) : IsDigit(txt[i])

\* a str float() accepts: behind an optional sign nan in either case, or a decimal
\* with an optional exponent of e, an optional sign and digits
IsFloatStr(txt) ==
    \/ IsNanStr(Unsigned(txt))
    \/ /\ IsDecimalStr(Before("e", Unsigned(txt)))
       /\ Find("e", Unsigned(txt)) = 0 \/ IsIntStr(After("e", Unsigned(txt)))

\* a str of digits without the zeros it ends with
RECURSIVE StripZeros(_)
StripZeros(txt) ==
    IF Len(txt) > 0 /\ txt[Len(txt)] = "0" THEN StripZeros(SubSeq(txt, 1, Len(txt) - 1))
    ELSE txt

\* float(txt)
FloatOfStr(txt) ==
    LET mantissa == Before("e", Unsigned(txt))
        written == Before(".", mantissa) \o After(".", mantissa)
        digits == NatOfStr(StripZeros(written))
        exponent == IF Find("e", Unsigned(txt)) = 0 THEN 0
                    ELSE IntOfStr(After("e", Unsigned(txt)))
    IN IF IsNanStr(Unsigned(txt)) THEN PyNaN
       ELSE IF digits = 0 THEN (IF Negative(txt) THEN PyNegZero ELSE PyFloat(0, 0))
       ELSE PyFloat(IF Negative(txt) THEN -digits ELSE digits,
                    exponent - Len(After(".", mantissa))
                        + (Len(written) - Len(StripZeros(written))))

\* int(x) of a float that is no nan: the digits left of the point
IntOfFloat(x) ==
    IF x.exp >= 0 THEN x.n * (10 ^ x.exp)
    ELSE IF x.exp < -9 THEN 0
    ELSE IF x.n < 0 THEN -(Abs(x.n) \div (10 ^ (-x.exp)))
    ELSE x.n \div (10 ^ (-x.exp))

\* can data_type(x) be computed: int(), float(), bool(), str() of a Python value
CastOk(data_type, x) ==
    CASE data_type = "int" ->
            \/ x.t \in {"int", "bool"}
            \/ x.t = "float" /\ x.special # "nan"
            \/ x.t = "str" /\ IsIntStr(x.txt)
      [] data_type = "float" -> x.t \in {"int", "float", "bool"} \/ (x.t = "str" /\ IsFloatStr(x.txt))
      [] data_type = "bool" -> TRUE
      [] data_type = "str" -> TRUE

\* data_type(x) of None, a number, a bool or a str: int() cuts a float at the point,
\* bool() is the truth value, str() the text
Cast(data_type, x) ==
    CASE data_type = "int" ->
            PyInt(CASE x.t = "float" -> IntOfFloat(x)
                    [] x.t = "str" -> IntOfStr(x.txt)
                    [] OTHER -> x.n)
      [] data_type = "float" ->
            (CASE x.t = "float" -> x
               [] x.t = "str" -> FloatOfStr(x.txt)
               [] OTHER -> PyFloat(x.n, 0))
      [] data_type = "bool" ->
            PyBool(CASE x.t = "str" -> Len(x.txt) > 0
                     [] x.t = "list" -> Len(x.elems) > 0
                     [] OTHER -> x.n # 0 \/ x.special = "nan")
      [] data_type = "str" ->
            PyStr(CASE x.t = "str" -> x.txt
                    [] x.t = "int" -> StrOfInt(x.n)
                    [] x.t = "float" -> StrOfFloat(x)
                    [] x.t = "bool" -> IF x.n = 1 THEN <<"T", "r", "u", "e">>
                                       ELSE <<"F", "a", "l", "s", "e">>
                    [] x.t = "none" -> <<"N", "o", "n", "e">>)

\* `try: x = data_type(x)  except: pass`
TryCast(data_type, x) == IF CastOk(data_type, x) THEN Cast(data_type, x) ELSE x

\* _cast_limits: a limit that is not None is cast when the cast works
CastLimit(data_type, x) == IF x.t = "none" THEN x ELSE TryCast(data_type, x)

\* _cast_allowed_values: list(map(data_type, allowed_values)), all elements or none
CastAllowedValues(data_type, allowed) ==
    IF \A i \in 1..Len(allowed) : CastOk(data_type, allowed[i])
    THEN [i \in 1..Len(allowed) |-> Cast(data_type, allowed[i])]
    ELSE allowed

\* the elements map() iterates over: of a str its characters
Iterated(x) == IF x.t = "str" THEN [i \in 1..Len(x.txt) |-> PyStr(<<x.txt[i]>>)] ELSE x.elems

\* _cast_default. For a list, list(map(data_type, default)): a str or a list default
\* becomes the list of its cast characters or elements when every cast works, None and
\* a number are not iterable and stay. For a scalar, data_type(default) is tried, on
\* None as well
CastDefault(data_type, is_list, default) ==
    IF ~is_list THEN TryCast(data_type, default)
    ELSE IF default.t \notin {"str", "list"} THEN default
    ELSE IF \A i \in 1..Len(Iterated(default)) : CastOk(data_type, Iterated(default)[i])
    THEN PyList([i \in 1..Len(Iterated(default)) |-> Cast(data_type, Iterated(default)[i])])
    ELSE default

\* isinstance(x, data_type); bool is a subclass of int
IsInstance(x, data_type) == x.t = data_type \/ (data_type = "int" /\ x.t = "bool")

\* a number as a float
Num(x) == IF x.t = "float" THEN x ELSE PyFloat(x.n, 0)

Sign(x) == IF x.n > 0 THEN 1 ELSE IF x.n < 0 THEN -1 ELSE 0

\* |a| < |b| of two floats other than 0 and nan: the places left of the point, then
\* the digits
AbsLess(a, b) ==
    IF Len(StrOfNat(Abs(a.n))) + a.exp # Len(StrOfNat(Abs(b.n))) + b.exp
    THEN Len(StrOfNat(Abs(a.n))) + a.exp < Len(StrOfNat(Abs(b.n))) + b.exp
    ELSE StrLess(StrOfNat(Abs(a.n)), StrOfNat(Abs(b.n)))

\* a < b of two floats; no comparison with nan holds
NumLess(a, b) ==
    IF a.special = "nan" \/ b.special = "nan" THEN FALSE
    ELSE IF Sign(a) # Sign(b) THEN Sign(a) < Sign(b)
    ELSE IF Sign(a) = 0 THEN FALSE
    ELSE IF Sign(a) > 0 THEN AbsLess(a, b)
    ELSE AbsLess(b, a)

\* a < b of two strs or of two numbers
PyLess(a, b) == IF a.t = "str" THEN StrLess(a.txt, b.txt) ELSE NumLess(Num(a), Num(b))

\* a == b of two strs or of two numbers that are not one object; -0.0 equals 0.0
PyEq(a, b) ==
    IF a.t = "str" \/ b.t = "str" THEN a.t = b.t /\ a.txt = b.txt
    ELSE /\ Num(a).special # "nan" /\ Num(b).special # "nan"
         /\ Num(a).n = Num(b).n /\ Num(a).exp = Num(b).exp

\* a <= b
PyLessEq(a, b) == PyLess(a, b) \/ PyEq(a, b)

\* x in lst
PyIn(x, lst) == \E i \in 1..Len(lst) : PyEq(x, lst[i])

\* variant of ValidateLimits that checks the types of the limits only
ValidateLimitsTypesOnly(data_type, upper, lower) ==
    IF upper.t # "none" /\ ~IsInstance(upper, data_type) THEN "TypeError"
    ELSE IF lower.t # "none" /\ ~IsInstance(lower, data_type) THEN "TypeError"
    ELSE ""

\* _validate_limits: the exception it raises, "" for none
ValidateLimits(data_type, upper, lower) ==
    IF upper.t # "none" /\ ~IsInstance(upper, data_type) THEN "TypeError"
    ELSE IF lower.t # "none" /\ ~IsInstance(lower, data_type) THEN "TypeError"
    ELSE IF upper.t # "none" /\ lower.t # "none" /\ PyLess(upper, lower) THEN "ValueError"
    ELSE ""

\* _validate_allowed_values
ValidateAllowedValuesOfModel(data_type, allowed) ==
    IF Len(allowed) > 0 /\ ~(\A i \in 1..Len(allowed) : IsInstance(allowed[i], data_type))
    THEN "TypeError"
    ELSE ""

\* _validate_default: of a list model every element is checked, `elem <= upper_limit`
\* and `elem >= lower_limit`; of a scalar model `default > upper_limit` and
\* `default < lower_limit`
ValidateDefault(data_type, upper, lower, allowed, is_list, default) ==
    IF default.t = "none" THEN ""
    ELSE IF is_list
    THEN IF default.t # "list" THEN "TypeError"
         ELSE IF ~(\A i \in 1..Len(default.elems) : IsInstance(default.elems[i], data_type))
         THEN "TypeError"
         ELSE IF upper.t # "none"
                 /\ ~(\A i \in 1..Len(default.elems) : PyLessEq(default.elems[i], upper))
         THEN "ValueError"
         ELSE IF lower.t # "none"
                 /\ ~(\A i \in 1..Len(default.elems) : PyLessEq(lower, default.elems[i]))
         THEN "ValueError"
         ELSE IF Len(allowed) > 0
                 /\ ~(\A i \in 1..Len(default.elems) : PyIn(default.elems[i], allowed))
         THEN "ValueError"
         ELSE ""
    ELSE IF ~IsInstance(default, data_type) THEN "TypeError"
    ELSE IF upper.t # "none" /\ PyLess(upper, default) THEN "ValueError"
    ELSE IF lower.t # "none" /\ PyLess(default, lower) THEN "ValueError"
    ELSE IF Len(allowed) > 0 /\ ~PyIn(default, allowed) THEN "ValueError"
    ELSE ""

NoSpec ==
    [is_list |-> FALSE, upper_limit |-> PyNone, lower_limit |-> PyNone,
     allowed_values |-> <<>>, default |-> PyNone, data_type |-> "", built |-> FALSE]

\* the exception the caller of the constructor sees: pydantic wraps a ValueError of a
\* validator in ValidationError and lets a TypeError through
ConstructionError(raised, stage) ==
    IF raised = "" THEN NoError
    ELSE IF raised = "ValueError" THEN Error("ValidationError", stage, "")
    ELSE Error(raised, stage, "")

\* ParameterModel(data_type=..., upper_limit=..., ...): the three casts, then the three
\* checks in the order of `validate`; the first check that raises ends the construction
ValidateModel(data_type, upper_in, lower_in, allowed_in, is_list, default_in) ==
    LET upper == CastLimit(data_type, upper_in)
        lower == CastLimit(data_type, lower_in)
        allowed == CastAllowedValues(data_type, allowed_in)
        default == CastDefault(data_type, is_list, default_in)
        e1 == ValidateLimits(data_type, upper, lower)
        e2 == ValidateAllowedValuesOfModel(data_type, allowed)
        e3 == ValidateDefault(data_type, upper, lower, allowed, is_list, default)
        err == IF e1 # "" THEN ConstructionError(e1, "validate_limits")
               ELSE IF e2 # "" THEN ConstructionError(e2, "validate_allowed_values")
               ELSE ConstructionError(e3, "validate_default")
    IN [err |-> err,
        spec |-> IF err.kind # "" THEN NoSpec
                 ELSE [is_list |-> is_list, upper_limit |-> upper, lower_limit |-> lower,
                       allowed_values |-> allowed, default |-> default,
                       data_type |-> data_type, built |-> TRUE]]

(***************************************************************************)
(* BaseDriverCommand.__call__ and its helpers                              *)
(***************************************************************************)
\* kwargs and save_vars are dicts in insertion order: sequences of [k, v]
Keys(kv) == {kv[i].k : i \in 1..Len(kv)}

\* prev_args = dict(zip(keys, values))
PrevArgs(wp) == [p \in DOMAIN wp |-> wp[p].value]

SetValue(wp, p, v) == [wp EXCEPT ![p].value = v]

\* _validate_parameters: the first formal argument of the callable that is not a key of
\* parameters raises KeyError; parameters without a formal argument are not looked at
ValidateParameters(c, fn) ==
    IF fn \subseteq ParamNames(c) THEN NoError
    ELSE Error("KeyError", "validate_parameters", "")

\* `self._function(**args)`: Python binds the keyword arguments to the formal arguments
\* before the body runs; a keyword that is no formal argument, or a formal argument
\* without a keyword, is a TypeError
BindError(c, args) ==
    IF DOMAIN args = FnSignature(c) THEN NoError
    ELSE Error("TypeError", "call", "")

\* variant of ValidateKwargs that looks at the first key only
ValidateKwargsFirstOnly(c, kw) ==
    IF Len(kw) > 0 /\ kw[1].k \notin ParamNames(c)
    THEN Error("KeyError", "validate_kwargs", kw[1].k)
    ELSE NoError

\* _validate_kwargs: the first key that is not a parameter raises KeyError
ValidateKwargs(c, kw) ==
    IF \E i \in 1..Len(kw) : kw[i].k \notin ParamNames(c)
    THEN LET i == CHOOSE j \in 1..Len(kw) :
                      /\ kw[j].k \notin ParamNames(c)
                      /\ \A h \in 1..(j-1) : kw[h].k \in ParamNames(c)
         IN Error("KeyError", "validate_kwargs", kw[i].k)
    ELSE NoError

\* the revert loop: `for prev_key, prev_value in prev_args.items():
\*                      self._parameters[prev_key].value = prev_value`
\* every assignment is validated again; the first one that fails leaves the loop
RECURSIVE RevertParameters(_, _, _, _)
RevertParameters(c, wp, prev, i) ==
    IF i > Len(ParamOrder(c)) THEN [params |-> wp, failed |-> ""]
    ELSE LET p == ParamOrder(c)[i] IN
         IF ValueOk(ParameterModel(c, p), prev[p])
         THEN RevertParameters(c, SetValue(wp, p, prev[p]), prev, i + 1)
         ELSE [params |-> wp, failed |-> p]

\* the except block of both loops of _update_parameters
RevertAndRaise(c, wp, prev, stage, p) ==
    LET r == RevertParameters(c, wp, prev, 1) IN
    [params |-> r.params,
     err |-> IF r.failed = "" THEN Error("ValidationError", stage, p)
             ELSE RevertError(stage, p, r.failed)]

\* variant of ApplyKwargs that first puts every parameter back to its default, as the
\* commented-out `self._set_parameters()` of __call__ would
RECURSIVE ApplyKwargsResetting(_, _, _, _, _)
ApplyKwargsResetting(c, wp, prev, kw, i) ==
    LET start == IF i = 1
                 THEN [p \in DOMAIN wp |-> [wp[p] EXCEPT !.value = ParameterModel(c, p).default]]
                 ELSE wp
    IN IF i > Len(kw) THEN [params |-> start, err |-> NoError]
       ELSE IF ValueOk(ParameterModel(c, kw[i].k), kw[i].v)
            THEN ApplyKwargsResetting(c, SetValue(start, kw[i].k, kw[i].v), prev, kw, i + 1)
            ELSE RevertAndRaise(c, start, prev, "kwargs", kw[i].k)

\* first loop of _update_parameters: `for key, value in kwargs.items()`
RECURSIVE ApplyKwargs(_, _, _, _, _)
ApplyKwargs(c, wp, prev, kw, i) ==
    IF i > Len(kw) THEN [params |-> wp, err |-> NoError]
    ELSE IF ValueOk(ParameterModel(c, kw[i].k), kw[i].v)
         THEN ApplyKwargs(c, SetValue(wp, kw[i].k, kw[i].v), prev, kw, i + 1)
         ELSE RevertAndRaise(c, wp, prev, "kwargs", kw[i].k)

\* variant of ResolveVariables that never reads the globals
ResolveVariablesSkipped(c, wp, prev, g, i) == [params |-> wp, err |-> NoError]

\* second loop of _update_parameters: `for key, param in self._parameters.items()`
RECURSIVE ResolveVariables(_, _, _, _, _)
ResolveVariables(c, wp, prev, g, i) ==
    IF i > Len(ParamOrder(c)) THEN [params |-> wp, err |-> NoError]
    ELSE LET p == ParamOrder(c)[i] IN
         IF wp[p].from_var /\ wp[p].var_name \in DOMAIN g
         THEN IF ValueOk(ParameterModel(c, p), g[wp[p].var_name])
              THEN ResolveVariables(c, SetValue(wp, p, g[wp[p].var_name]), prev, g, i + 1)
              ELSE RevertAndRaise(c, wp, prev, "variables", p)
         ELSE ResolveVariables(c, wp, prev, g, i + 1)

\* variant of UpdateParameters that resolves the variables before it applies the kwargs
UpdateParametersVariablesFirst(c, wp, g, kw) ==
    LET prev == PrevArgs(wp)
        r == ResolveVariables(c, wp, prev, g, 1)
    IN IF Raised(r.err) THEN r ELSE ApplyKwargs(c, r.params, prev, kw, 1)

\* _update_parameters: the kwargs loop, then the loop over the indirected parameters
UpdateParameters(c, wp, g, kw) ==
    LET prev == PrevArgs(wp)
        r == ApplyKwargs(c, wp, prev, kw, 1)
    IN IF Raised(r.err) THEN r ELSE ResolveVariables(c, r.params, prev, g, 1)

\* variant of SaveResultsToGlobals that writes nothing when a key of save_vars is missing
\* from the result
RECURSIVE SaveResultsToGlobalsAtomic(_, _, _, _, _)
SaveResultsToGlobalsAtomic(result, g, sv, i, writes) ==
    IF i > Len(sv) THEN [globals |-> g, err |-> NoError, writes |-> writes]
    ELSE IF \A j \in i..Len(sv) : sv[j].k \in DOMAIN result
         THEN SaveResultsToGlobalsAtomic(result, DictSet(g, sv[i].v, result[sv[i].k]), sv, i + 1,
                                         Append(writes, [var |-> sv[i].v, value |-> result[sv[i].k]]))
         ELSE [globals |-> g, err |-> Error("KeyError", "save", ""), writes |-> writes]

\* _save_results_to_globals: `wf_globals[global_var] = result[result_var]` in dict order;
\* writes lists the assignments made, in order
RECURSIVE SaveResultsToGlobals(_, _, _, _, _)
SaveResultsToGlobals(result, g, sv, i, writes) ==
    IF i > Len(sv) THEN [globals |-> g, err |-> NoError, writes |-> writes]
    ELSE IF sv[i].k \in DOMAIN result
         THEN SaveResultsToGlobals(result, DictSet(g, sv[i].v, result[sv[i].k]), sv, i + 1,
                                   Append(writes, [var |-> sv[i].v, value |-> result[sv[i].k]]))
         ELSE [globals |-> g, err |-> Error("KeyError", "save", sv[i].k), writes |-> writes]

\* variant of CallFunction that saves and returns the result whatever has_return is
CallFunctionReturning(c, wp, g, sv) ==
    LET args == PrevArgs(wp)
        result == Fn(c, args)
        call == [cmd |-> c, args |-> args, result |-> result, save_vars |-> sv]
        s == SaveResultsToGlobals(result, g, sv, 1, <<>>)
    IN IF Raised(BindError(c, args))
       THEN [params |-> wp, globals |-> g, err |-> BindError(c, args), calls |-> <<>>,
             ret |-> ResultNone, writes |-> <<>>]
       ELSE
       [params |-> wp, globals |-> s.globals, err |-> s.err, calls |-> <<call>>,
        ret |-> IF Raised(s.err) THEN ResultNone ELSE ResultDict(result),
        writes |-> s.writes]

\* the part of __call__ after _update_parameters succeeded (lines 604-616)
CallFunction(c, wp, g, sv) ==
    LET args == PrevArgs(wp)
        result == Fn(c, args)
        call == [cmd |-> c, args |-> args, result |-> result, save_vars |-> sv]
    IN IF Raised(BindError(c, args))
       THEN [params |-> wp, globals |-> g, err |-> BindError(c, args), calls |-> <<>>,
             ret |-> ResultNone, writes |-> <<>>]
       ELSE IF HasReturn(c)
       THEN LET s == SaveResultsToGlobals(result, g, sv, 1, <<>>) IN
            [params |-> wp, globals |-> s.globals, err |-> s.err, calls |-> <<call>>,
             ret |-> IF Raised(s.err) THEN ResultNone ELSE ResultDict(result),
             writes |-> s.writes]
       ELSE [params |-> wp, globals |-> g, err |-> NoError, calls |-> <<call>>,
             ret |-> ResultNone, writes |-> <<>>]

\* an exception leaves __call__ before the callable ran
CallRaised(wp, g, e) ==
    [params |-> wp, globals |-> g, err |-> e, calls |-> <<>>, ret |-> ResultNone, writes |-> <<>>]

\* variant of Call that raises KeyError for an indirected parameter whose variable is
\* not in the globals
CallStrictVariables(c, wp, g, sv, kw) ==
    LET ve == ValidateKwargs(c, kw) IN
    IF Raised(ve) THEN CallRaised(wp, g, ve)
    ELSE IF \E p \in ParamNames(c) : wp[p].from_var /\ wp[p].var_name \notin DOMAIN g
    THEN CallRaised(wp, g, Error("KeyError", "variables", ""))
    ELSE LET u == UpdateParameters(c, wp, g, kw) IN
         IF Raised(u.err) THEN CallRaised(u.params, g, u.err)
         ELSE CallFunction(c, u.params, g, sv)

\* __call__(wf_globals, save_vars, **kwargs) on command c whose _parameters are wp
Call(c, wp, g, sv, kw) ==
    LET ve == ValidateKwargs(c, kw) IN
    IF Raised(ve) THEN CallRaised(wp, g, ve)
    ELSE LET u == UpdateParameters(c, wp, g, kw) IN
         IF Raised(u.err) THEN CallRaised(u.params, g, u.err)
         ELSE CallFunction(c, u.params, g, sv)

(***************************************************************************)
(* BaseDriverWorkflow.exec                                                 *)
(* A list argument is None or a list; a list entry is None or a dict.      *)
(***************************************************************************)
NoneList == [none |-> TRUE, items |-> <<>>]

SomeList(items) == [none |-> FALSE, items |-> items]

NoneEntry == [none |-> TRUE, kv |-> <<>>]

DictEntry(kv) == [none |-> FALSE, kv |-> kv]

\* variant of DefaultList that makes every entry the empty dict
DefaultListEmptying(lst, n) ==
    IF lst.none THEN [i \in 1..n |-> <<>>]
    ELSE [i \in 1..Len(lst.items) |-> <<>>]

\* `if list is None: list = len(self.commands)*[{}]`, then None entries become {}
DefaultList(lst, n) ==
    IF lst.none THEN [i \in 1..n |-> <<>>]
    ELSE [i \in 1..Len(lst.items) |-> IF lst.items[i].none THEN <<>> ELSE lst.items[i].kv]

\* variant of ExecSteps that empties the globals when a step raises
RECURSIVE ExecStepsClearing(_, _, _, _, _, _)
ExecStepsClearing(cmds, lkw, lsv, i, wps, acc) ==
    IF i > Len(cmds)
    THEN [params |-> wps, globals |-> acc.globals, err |-> NoError, failed_step |-> 0,
          calls |-> acc.calls, returned |-> TRUE, log |-> acc.log, writes |-> acc.writes]
    ELSE LET r == Call(cmds[i], wps[cmds[i]], acc.globals, lsv[i], lkw[i])
             wps2 == [wps EXCEPT ![cmds[i]] = r.params]
         IN IF Raised(r.err)
            THEN [params |-> wps2, globals |-> EmptyDict, err |-> r.err, failed_step |-> i,
                  calls |-> acc.calls \o r.calls, returned |-> FALSE, log |-> <<>>,
                  writes |-> acc.writes \o r.writes]
            ELSE ExecStepsClearing(cmds, lkw, lsv, i + 1, wps2,
                           [globals |-> r.globals, calls |-> acc.calls \o r.calls,
                            log |-> Append(acc.log, r.ret), writes |-> acc.writes \o r.writes])

\* the for loop of exec from step i on: the first step that raises ends the loop and the
\* call; result_log is a local of exec and is returned only when the loop ends
RECURSIVE ExecSteps(_, _, _, _, _, _)
ExecSteps(cmds, lkw, lsv, i, wps, acc) ==
    IF i > Len(cmds)
    THEN [params |-> wps, globals |-> acc.globals, err |-> NoError, failed_step |-> 0,
          calls |-> acc.calls, returned |-> TRUE, log |-> acc.log, writes |-> acc.writes]
    ELSE LET r == Call(cmds[i], wps[cmds[i]], acc.globals, lsv[i], lkw[i])
             wps2 == [wps EXCEPT ![cmds[i]] = r.params]
         IN IF Raised(r.err)
            THEN [params |-> wps2, globals |-> r.globals, err |-> r.err, failed_step |-> i,
                  calls |-> acc.calls \o r.calls, returned |-> FALSE, log |-> <<>>,
                  writes |-> acc.writes \o r.writes]
            ELSE ExecSteps(cmds, lkw, lsv, i + 1, wps2,
                           [globals |-> r.globals, calls |-> acc.calls \o r.calls,
                            log |-> Append(acc.log, r.ret), writes |-> acc.writes \o r.writes])

\* variant of Exec that compares only the length of list_kwargs with the commands and
\* pairs the lists off with zip, which stops at the shortest
ExecKwargsCheckOnly(cmds, wps, g, list_kwargs, list_save_vars) ==
    LET lkw == DefaultList(list_kwargs, Len(cmds))
        lsv == DefaultList(list_save_vars, Len(cmds))
        n == IF Len(lsv) < Len(cmds) THEN Len(lsv) ELSE Len(cmds)
    IN IF Len(cmds) # Len(lkw)
       THEN [params |-> wps, globals |-> g, err |-> Error("ValueError", "length", ""),
             failed_step |-> 0, calls |-> <<>>, returned |-> FALSE, log |-> <<>>,
             writes |-> <<>>]
       ELSE ExecSteps(SubSeq(cmds, 1, n), lkw, lsv, 1, wps,
                      [globals |-> g, calls |-> <<>>, log |-> <<>>, writes |-> <<>>])

\* exec(list_kwargs, list_save_vars) of a workflow whose commands are cmds and whose
\* wf_globals is g; wps are the _parameters of the commands
Exec(cmds, wps, g, list_kwargs, list_save_vars) ==
    LET lkw == DefaultList(list_kwargs, Len(cmds))
        lsv == DefaultList(list_save_vars, Len(cmds))
    IN IF Len(cmds) # Len(lkw) \/ Len(cmds) # Len(lsv)
       THEN [params |-> wps, globals |-> g, err |-> Error("ValueError", "length", ""),
             failed_step |-> 0, calls |-> <<>>, returned |-> FALSE, log |-> <<>>,
             writes |-> <<>>]
       ELSE ExecSteps(cmds, lkw, lsv, 1, wps,
                      [globals |-> g, calls |-> <<>>, log |-> <<>>, writes |-> <<>>])

(***************************************************************************)
(* The driver library of the interpreter: BaseDriverCommandLibrary with    *)
(* one BaseDriverMicroservice                                              *)
(***************************************************************************)
MicroserviceNames == {"synth"}

MicroserviceUuid(m) == "u1"

MicroserviceCommands(m) == CommandNames

\* BaseCommandLibrary._microservices: the keys of the UUID index
UuidKeys == {MicroserviceUuid(m) : m \in MicroserviceNames}

\* BaseCommand.uuid / BaseCommand.microservice of the registered commands
CommandUuid(c) == "u1"

CommandMicroservice(c) == "synth"

(***************************************************************************)
(* BaseInfoCommand.to_run_command and BaseRunCommand                       *)
(***************************************************************************)
NoRunCommand ==
    [uuid |-> "", name |-> "", microservice |-> "", order |-> <<>>,
     parameters |-> [x \in {} |-> NoneV], save_vars |-> <<>>]

Lookup(kv, key) == kv[CHOOSE i \in 1..Len(kv) : kv[i].k = key].v

\* the first parameter, in dict order from i on, whose kwargs value its Parameter rejects
RECURSIVE FirstRejected(_, _, _)
FirstRejected(c, kwargs, i) ==
    IF i > Len(ParamOrder(c)) THEN ""
    ELSE LET p == ParamOrder(c)[i] IN
         IF p \in Keys(kwargs) /\ ~ValueOk(ParameterModel(c, p), Lookup(kwargs, p))
         THEN p
         ELSE FirstRejected(c, kwargs, i + 1)

\* to_run_command(var_names, save_vars, **kwargs) of the Info Command of command c; the
\* Info Command holds the ParameterModel objects of the Driver Command (pm)
ToRunCommand(c, pm, var_names, save_vars, kwargs) ==
    IF ReturnSignature(c) # {} /\ ~(Keys(save_vars) \subseteq ReturnSignature(c))
    THEN [err |-> Error("KeyError", "save_vars", ""), rc |-> NoRunCommand]
    ELSE IF ~(Keys(var_names) \subseteq ParamNames(c))
    THEN [err |-> Error("KeyError", "var_names", ""), rc |-> NoRunCommand]
    ELSE IF ~(Keys(kwargs) \subseteq ParamNames(c))
    THEN [err |-> Error("KeyError", "kwargs", ""), rc |-> NoRunCommand]
    ELSE IF FirstRejected(c, kwargs, 1) # ""
    THEN [err |-> Error("ValidationError", "kwargs", FirstRejected(c, kwargs, 1)),
          rc |-> NoRunCommand]
    ELSE [err |-> NoError,
          rc |-> [uuid |-> CommandUuid(c), name |-> c, microservice |-> CommandMicroservice(c),
                  order |-> ParamOrder(c),
                  parameters |->
                      [p \in ParamNames(c) |->
                          [value |-> IF p \in Keys(kwargs) THEN Lookup(kwargs, p)
                                     ELSE ToParam(c, p, pm[p]).value,
                           from_var |-> IF p \in Keys(var_names) THEN TRUE
                                        ELSE ToParam(c, p, pm[p]).from_var,
                           var_name |-> IF p \in Keys(var_names) THEN Lookup(var_names, p)
                                        ELSE ToParam(c, p, pm[p]).var_name]],
                  save_vars |-> save_vars]]

\* BaseRunCommand.to_kwargs
RECURSIVE ToKwargsFrom(_, _)
ToKwargsFrom(rc, i) ==
    IF i > Len(rc.order) THEN <<>>
    ELSE LET p == rc.order[i] IN
         IF rc.parameters[p].from_var THEN ToKwargsFrom(rc, i + 1)
         ELSE <<[k |-> p, v |-> rc.parameters[p].value]>> \o ToKwargsFrom(rc, i + 1)

ToKwargs(rc) == ToKwargsFrom(rc, 1)

(***************************************************************************)
(* BaseDriverCommand.set_param_values_from_run_command and the interpreter *)
(***************************************************************************)
\* driver_command.model_copy(): a shallow copy; its _parameters and parameters are the
\* dict objects of the registered command, so the copy is the command as far as the
\* parameter state goes
ModelCopy(c) == c

\* the loop `for param_name, parameter in command.items()` from entry i on, on the
\* _parameters wp and the parameters pm of one command
RECURSIVE SetParamValuesFromRunCommand(_, _, _, _, _)
SetParamValuesFromRunCommand(c, wp, pm, rc, i) ==
    IF i > Len(rc.order) THEN [params |-> wp, models |-> pm, err |-> NoError]
    ELSE LET p == rc.order[i]
             parameter == rc.parameters[p]
         IN IF p \notin DOMAIN wp
            THEN [params |-> wp, models |-> pm, err |-> Error("KeyError", "bind", p)]
            ELSE IF ~parameter.from_var
            THEN IF ValueOk(ParameterModel(c, p), parameter.value)
                 THEN SetParamValuesFromRunCommand(c, SetValue(wp, p, parameter.value), pm, rc, i + 1)
                 ELSE [params |-> wp, models |-> pm, err |-> Error("ValidationError", "bind", p)]
            ELSE SetParamValuesFromRunCommand(c,
                     [wp EXCEPT ![p].from_var = parameter.from_var, ![p].var_name = parameter.var_name],
                     [pm EXCEPT ![p].from_var = parameter.from_var, ![p].var_name = parameter.var_name],
                     rc, i + 1)

\* _interpret_command: the lookup by UUID (no caller in the interpreter)
InterpretCommand(rc) ==
    IF rc.uuid \notin UuidKeys THEN Error("KeyError", "uuid", rc.uuid)
    ELSE IF rc.name \notin CommandNames THEN Error("KeyError", "command", rc.name)
    ELSE NoError

\* `self.driver_library[run_command.microservice][run_command.name]`
LibraryLookup(rc) ==
    IF rc.microservice \notin MicroserviceNames THEN Error("KeyError", "microservice", rc.microservice)
    ELSE IF rc.name \notin MicroserviceCommands(rc.microservice)
    THEN Error("KeyError", "command", rc.name)
    ELSE NoError

\* the for loop of interpret_workflow from run command i on; cmds are the commands
\* appended to the driver workflow so far
RECURSIVE InterpretSteps(_, _, _, _, _)
InterpretSteps(rw, i, wps, pms, cmds) ==
    IF i > Len(rw)
    THEN [params |-> wps, models |-> pms, err |-> NoError, failed_step |-> 0, cmds |-> cmds]
    ELSE LET rc == rw[i]
             le == LibraryLookup(rc)
         IN IF Raised(le)
            THEN [params |-> wps, models |-> pms, err |-> le, failed_step |-> i, cmds |-> cmds]
            ELSE LET c == ModelCopy(rc.name)
                     b == SetParamValuesFromRunCommand(c, wps[c], pms[c], rc, 1)
                     wps2 == [wps EXCEPT ![c] = b.params]
                     pms2 == [pms EXCEPT ![c] = b.models]
                 IN IF Raised(b.err)
                    THEN [params |-> wps2, models |-> pms2, err |-> b.err, failed_step |-> i,
                          cmds |-> cmds]
                    ELSE InterpretSteps(rw, i + 1, wps2, pms2, Append(cmds, c))

\* the three shapes of the run_workflow argument of the interpreter; a list and a Run
\* Workflow hold the Run Commands rw, a single Run Command is rw[1]
InputShapes == {"command", "list", "workflow"}

\* _cast_workflow(run_workflow, name): the commands of the Run Workflow it returns.  For
\* a single Run Command it builds BaseRunWorkflow(commands=[BaseRunCommand]) from the
\* class object, which the validation of the field `commands` rejects.
CastWorkflow(shape, rw) ==
    IF shape = "workflow" THEN [err |-> NoError, commands |-> rw]
    ELSE IF shape = "command"
    THEN [err |-> Error("ValidationError", "cast", ""), commands |-> <<>>]
    ELSE [err |-> NoError, commands |-> rw]

\* interpret_workflow(run_workflow) for an argument of the given shape
InterpretWorkflow(shape, rw, wps, pms) ==
    IF Raised(CastWorkflow(shape, rw).err)
    THEN [params |-> wps, models |-> pms, err |-> CastWorkflow(shape, rw).err,
          failed_step |-> 0, cmds |-> <<>>]
    ELSE InterpretSteps(CastWorkflow(shape, rw).commands, 1, wps, pms, <<>>)

\* interpret_and_run_workflow after interpret_workflow returned w: `workflow.exec(...)` on
\* the new Driver Workflow, whose wf_globals are empty
RunInterpreted(rw, w) ==
    IF Raised(w.err)
    THEN [params |-> w.params, models |-> w.models, err |-> w.err, failed_step |-> 0,
          cmds |-> w.cmds, globals |-> EmptyDict, calls |-> <<>>, returned |-> FALSE,
          log |-> <<>>, writes |-> <<>>]
    ELSE CHOOSE out \in
            {[params |-> e.params, models |-> w.models, err |-> e.err,
              failed_step |-> e.failed_step, cmds |-> w.cmds, globals |-> e.globals,
              calls |-> e.calls, returned |-> e.returned, log |-> e.log, writes |-> e.writes] :
             e \in {Exec(w.cmds, w.params, EmptyDict,
                         SomeList([i \in 1..Len(rw) |-> DictEntry(ToKwargs(rw[i]))]),
                         SomeList([i \in 1..Len(rw) |-> DictEntry(rw[i].save_vars)]))}} : TRUE

\* interpret_and_run_workflow(run_workflow)
InterpretAndRunWorkflow(shape, rw, wps, pms) ==
    CHOOSE out \in {RunInterpreted(rw, w) : w \in {InterpretWorkflow(shape, rw, wps, pms)}} : TRUE

(***************************************************************************)
(* Inputs of the operations                                                *)
(***************************************************************************)
\* values a caller passes for parameter k of command c: one inside, one outside the limits
KwargValues(c, k) ==
    IF k \notin ParamNames(c) THEN {IntV(3)}
    ELSE IF ParameterModel(c, k).is_list THEN {ListV(<<3>>), ListV(<<3, 999>>)}
    ELSE {IntV(3), IntV(999)}

UnknownKey == "zz"

KwargEntries(c) ==
    UNION {{[k |-> k, v |-> v] : v \in KwargValues(c, k)} : k \in ParamNames(c) \cup {UnknownKey}}

DistinctKeys(s) == \A i, j \in 1..Len(s) : i # j => s[i].k # s[j].k

KwargsChoices(c) ==
    UNION {{s \in [1..n -> KwargEntries(c)] : DistinctKeys(s)} : n \in 0..MaxKwargs}

GlobalsChoices ==
    {EmptyDict, [x \in {"g"} |-> IntV(3)], [x \in {"g"} |-> IntV(7)],
     [x \in {"g"} |-> IntV(999)]}

\* save_vars: result key -> global name; "w" is a key no callable returns
SaveVarsChoices ==
    {<<>>,
     <<[k |-> "x", v |-> "g"]>>,
     <<[k |-> "x", v |-> "g"], [k |-> "w", v |-> "h"]>>}

\* set_var_name calls a caller makes
VarNameChoices == {<<"make", "b", "g">>}

\* set_var_name calls made on the commands of a workflow
WorkflowVarNameChoices == {<<"make", "b", "g">>, <<"use", "p", "g">>}

\* commands a caller invokes directly
InvokeChoices == {"make"}

\* one step of a workflow a caller runs: the command and its entries of the two lists
StepChoices ==
    {[cmd |-> "make", kwargs |-> DictEntry(<<[k |-> "a", v |-> IntV(3)]>>),
                      save_vars |-> DictEntry(<<[k |-> "x", v |-> "g"]>>)],
     [cmd |-> "make", kwargs |-> DictEntry(<<[k |-> "a", v |-> IntV(999)]>>), save_vars |-> NoneEntry],
     [cmd |-> "make", kwargs |-> DictEntry(<<[k |-> "l", v |-> ListV(<<3>>)]>>),
                      save_vars |-> DictEntry(<<[k |-> "y", v |-> "h"], [k |-> "w", v |-> "g"]>>)],
     [cmd |-> "use", kwargs |-> NoneEntry, save_vars |-> NoneEntry]}

WorkflowChoices == UNION {[1..n -> StepChoices] : n \in 1..MaxSteps}

\* how the two list arguments of exec are formed from the steps
ListShapes == {"both", "none", "kwargs_short", "save_long"}

ShapeList(items, shape, which) ==
    IF shape = "none" THEN NoneList
    ELSE IF shape = which \o "_short" THEN SomeList(SubSeq(items, 1, Len(items) - 1))
    ELSE IF shape = which \o "_long" THEN SomeList(Append(items, NoneEntry))
    ELSE SomeList(items)

(***************************************************************************)
(* The observation of one operation                                        *)
(***************************************************************************)
NoObservation ==
    [op |-> "init", cmds |-> <<>>, input |-> {}, err |-> NoError, failed_step |-> 0,
     calls |-> <<>>, returned |-> FALSE, ret |-> ResultNone, log |-> <<>>,
     globals_in |-> EmptyDict, globals |-> EmptyDict, writes |-> <<>>,
     shape |-> "", cast |-> <<>>]

\* the kwargs of an invoke that name an indirected parameter
IndirectedKwargs(c, wp, kw) ==
    LET Indirected(e) == e.k \in ParamNames(c) /\ wp[e.k].from_var
    IN SelectSeq(kw, Indirected)

\* facts about the kwargs of an invoke, as the caller knows them
KwargFacts(c, wp, g, kw) ==
    (IF \E i \in 1..Len(kw) : kw[i].k \notin ParamNames(c) THEN {"unknown_kwarg"} ELSE {})
    \cup (IF \E i \in 1..Len(kw) : kw[i].k \in ParamNames(c)
                                   /\ ~ValueOk(ParameterModel(c, kw[i].k), kw[i].v)
          THEN {"invalid_kwarg"} ELSE {})
    \cup (IF \E i \in 1..Len(kw) : kw[i].k \in ParamNames(c)
                                   /\ ValueOk(ParameterModel(c, kw[i].k), kw[i].v)
          THEN {"valid_kwarg"} ELSE {})
    \cup (IF \E p \in ParamNames(c) : /\ wp[p].from_var
                                      /\ wp[p].var_name \in DOMAIN g
                                      /\ ~ValueOk(ParameterModel(c, p), g[wp[p].var_name])
          THEN {"invalid_global"} ELSE {})
    \cup (IF \E i \in 1..Len(kw) : /\ kw[i].k \in ParamNames(c)
                                   /\ wp[kw[i].k].from_var
                                   /\ wp[kw[i].k].var_name \in DOMAIN g
                                   /\ g[wp[kw[i].k].var_name] # kw[i].v
          THEN {"overridden_kwarg"} ELSE {})

(***************************************************************************)
(* BaseCommandLibrary and BaseMicroservice as objects a caller edits.      *)
(* A microservice object is [name, uuid]; a contained command is           *)
(* [name, microservice].  Dicts are functions from their keys.             *)
(***************************************************************************)
\* the microservice objects a caller holds; distinct objects have distinct uuids
MicroserviceChoices ==
    {[name |-> "synth", uuid |-> "u1"], [name |-> "prep", uuid |-> "u2"],
     [name |-> "synth", uuid |-> "u3"]}

LibraryKeys == {"synth", "prep"}

\* the dicts a caller passes as `microservices`
MicroservicesChoices ==
    UNION {[ks -> MicroserviceChoices] : ks \in SUBSET LibraryKeys}

\* validate_command_library: {str(m.uuid): m for m in self.microservices.values()}
UuidIndex(ms) ==
    [u \in {ms[k].uuid : k \in DOMAIN ms} |-> CHOOSE m \in {ms[k] : k \in DOMAIN ms} : m.uuid = u]

\* BaseCommandLibrary(name=..., microservices=ms)
NewLibrary(ms) == [microservices |-> ms, index |-> UuidIndex(ms)]

\* the microservices and the commands of the registered driver library
RegisteredMicroservices ==
    [k \in MicroserviceNames |-> [name |-> k, uuid |-> MicroserviceUuid(k)]]

RegisteredCommands ==
    [k \in CommandNames |-> [name |-> k, microservice |-> CommandMicroservice(k)]]

\* the command objects a caller holds and the dicts passed as `commands`
CommandChoices == [name : CommandNames, microservice : {"synth", "prep"}]

CommandsChoices == UNION {[ks -> CommandChoices] : ks \in SUBSET CommandNames}

\* validate_microservice on a microservice with this name and these commands, as the
\* caller of the constructor or of the assignment sees it: pydantic wraps the ValueError
\* of the validator in ValidationError and lets the KeyError through
ValidateMicroservice(name, commands) ==
    IF \E k \in DOMAIN commands : commands[k].microservice # name
    THEN ConstructionError("ValueError", "validate_microservice")
    ELSE IF \E k \in DOMAIN commands : k # commands[k].name
    THEN Error("KeyError", "validate_microservice", "")
    ELSE NoError

(***************************************************************************)
(* State after construction: BaseDriverCommand.validate ran                *)
(* _set_parameters for every registered command.                           *)
(***************************************************************************)
SetParameters(c, pm) == [p \in ParamNames(c) |-> ToParam(c, p, pm[p])]

Init ==
    /\ pmodels = [c \in CommandNames |-> [p \in ParamNames(c) |-> [from_var |-> FALSE, var_name |-> ""]]]
    /\ wparams = [c \in CommandNames |-> SetParameters(c, pmodels[c])]
    /\ returns = [c \in CommandNames |->
                     [has_return |-> TRUE, return_signature |-> DeclaredSignature(c)]]
    /\ last = NoObservation
    /\ library = NewLibrary(RegisteredMicroservices)
    /\ micro = [name |-> "synth", commands |-> RegisteredCommands]
    /\ container = [m |-> ParameterModel("make", "l"), value |-> ParameterModel("make", "l").default]
    /\ pspec = NoSpec
    /\ fnargs = [c \in CommandNames |-> DeclaredFn(c)]

(***************************************************************************)
(* Operations on one Driver Command                                        *)
(***************************************************************************)
\* command(wf_globals=g, save_vars=sv, **kw)
Invoke ==
    \E c \in InvokeChoices, g \in GlobalsChoices, sv \in SaveVarsChoices :
    \E kw \in KwargsChoices(c) :
    \E r \in {Call(c, wparams[c], g, sv, kw)} :
        /\ wparams' = [wparams EXCEPT ![c] = r.params]
        /\ UNCHANGED <<pmodels, returns, objvars, parvars, fnargs>>
        /\ last' = [NoObservation EXCEPT !.op = "invoke", !.cmds = <<c>>,
                        !.input = KwargFacts(c, wparams[c], g, kw),
                        !.err = r.err, !.calls = r.calls,
                        !.returned = ~Raised(r.err), !.ret = r.ret,
                        !.globals_in = g, !.globals = r.globals, !.writes = r.writes,
                        !.cast = IndirectedKwargs(c, wparams[c], kw)]

\* BaseDriverCommand.set_var_name(param_name, var_name) -> Parameter.set_var_name
SetVarName(b) ==
        /\ wparams' = [wparams EXCEPT ![b[1]][b[2]] = [@ EXCEPT !.from_var = TRUE, !.var_name = b[3]]]
        /\ UNCHANGED <<pmodels, returns, objvars, parvars, fnargs>>
        /\ last' = [NoObservation EXCEPT !.op = "set_var_name", !.cmds = <<b[1]>>]

\* command[key] = v of BaseDriverCommand.__setitem__: _parameters[key].value = v, an
\* assignment the validators of the Parameter check; a key that is no parameter is the
\* KeyError of the dict
SetItem ==
    \E c \in InvokeChoices :
    \E key \in ParamNames(c) \cup {UnknownKey} :
    \E v \in KwargValues(c, key) :
    \E failed \in {IF key \in ParamNames(c) THEN FailedValidator(ParameterModel(c, key), v)
                   ELSE ""} :
        /\ wparams' = IF key \in ParamNames(c) /\ failed = ""
                      THEN [wparams EXCEPT ![c][key] = [@ EXCEPT !.value = v]]
                      ELSE wparams
        /\ UNCHANGED <<pmodels, returns, objvars, parvars, fnargs>>
        /\ last' = [NoObservation EXCEPT !.op = "setitem", !.cmds = <<c>>,
                        !.err = IF key \notin ParamNames(c) THEN Error("KeyError", "setitem", key)
                                ELSE IF failed # "" THEN Error("ValidationError", failed, key)
                                ELSE NoError,
                        !.returned = key \in ParamNames(c) /\ failed = ""]

\* set_param_model calls a caller makes: the model of a parameter as the fixture declares
\* it, with and without an indirection
ParamModelChoices ==
    {<<"make", "a", [from_var |-> TRUE, var_name |-> "g"]>>,
     <<"make", "a", [from_var |-> FALSE, var_name |-> ""]>>}

\* BaseDriverCommand.set_param_model(key, value): parameters[key] = value; the Parameter
\* objects of _parameters are left as they are
SetParamModel(b) ==
        /\ pmodels' = [pmodels EXCEPT ![b[1]] = DictSet(@, b[2], b[3])]
        /\ UNCHANGED <<wparams, returns, objvars, parvars, fnargs>>
        /\ last' = [NoObservation EXCEPT !.op = "set_param_model", !.cmds = <<b[1]>>,
                        !.returned = TRUE]

NextCmd ==
    \/ Invoke
    \/ \E b \in VarNameChoices : SetVarName(b)
    \/ SetItem

SpecCmd == Init /\ [][NextCmd]_vars

(***************************************************************************)
(* Operations on a Driver Workflow built from the registered commands      *)
(***************************************************************************)
WorkflowGlobalsChoices == {EmptyDict, [x \in {"h"} |-> IntV(3)]}

\* BaseDriverWorkflow(commands=..., wf_globals=g).exec(list_kwargs, list_save_vars)
ExecWorkflow ==
    \E wf \in WorkflowChoices, g \in WorkflowGlobalsChoices, shape \in ListShapes :
    \E cmds \in {[i \in 1..Len(wf) |-> wf[i].cmd]} :
    \E lkw \in {ShapeList([i \in 1..Len(wf) |-> wf[i].kwargs], shape, "kwargs")} :
    \E lsv \in {ShapeList([i \in 1..Len(wf) |-> wf[i].save_vars], shape, "save")} :
    \E r \in {Exec(cmds, wparams, g, lkw, lsv)} :
        /\ wparams' = r.params
        /\ UNCHANGED <<pmodels, returns, objvars, parvars, fnargs>>
        /\ last' = [NoObservation EXCEPT !.op = "exec", !.cmds = cmds,
                        !.input = [kwargs |-> lkw, save_vars |-> lsv,
                                   list_kwargs |-> Len(DefaultList(lkw, Len(cmds))),
                                   list_save_vars |-> Len(DefaultList(lsv, Len(cmds)))],
                        !.err = r.err, !.failed_step = r.failed_step, !.calls = r.calls,
                        !.returned = r.returned, !.log = r.log,
                        !.globals_in = g, !.globals = r.globals, !.writes = r.writes]

NextWf == ExecWorkflow \/ \E b \in WorkflowVarNameChoices : SetVarName(b)

SpecWf == Init /\ [][NextWf]_vars

(***************************************************************************)
(* Operations of the interpreter                                           *)
(***************************************************************************)
\* how a caller obtains one Run Command: to_run_command on the Info Command of cmd with
\* these arguments; uuid, when not "", replaces the uuid of the payload
RunCommandChoices ==
    {[cmd |-> "make", var_names |-> <<>>, save_vars |-> <<[k |-> "x", v |-> "g"]>>,
      kwargs |-> <<[k |-> "l", v |-> ListV(<<3>>)], [k |-> "a", v |-> IntV(3)]>>, uuid |-> ""],
     [cmd |-> "make", var_names |-> <<[k |-> "b", v |-> "g"]>>, save_vars |-> <<>>,
      kwargs |-> <<[k |-> "l", v |-> ListV(<<3>>)]>>, uuid |-> ""],
     [cmd |-> "make", var_names |-> <<>>, save_vars |-> <<>>, kwargs |-> <<>>, uuid |-> ""],
     [cmd |-> "use", var_names |-> <<[k |-> "p", v |-> "g"]>>, save_vars |-> <<>>,
      kwargs |-> <<>>, uuid |-> ""],
     [cmd |-> "make", var_names |-> <<>>, save_vars |-> <<[k |-> "x", v |-> "g"]>>,
      kwargs |-> <<[k |-> "l", v |-> ListV(<<3>>)], [k |-> "a", v |-> IntV(3)]>>, uuid |-> "u9"]}

BuildRunCommand(d, pms) ==
    LET r == ToRunCommand(d.cmd, pms[d.cmd], d.var_names, d.save_vars, d.kwargs) IN
    [err |-> r.err, rc |-> IF d.uuid = "" THEN r.rc ELSE [r.rc EXCEPT !.uuid = d.uuid]]

\* the lists of to_run_command arguments of the Run Workflows a caller builds
RunWorkflowChoices == UNION {[1..n -> RunCommandChoices] : n \in 1..MaxSteps}

\* the shapes in which a caller can pass n Run Commands
ShapesOf(n) == IF n = 1 THEN InputShapes ELSE InputShapes \ {"command"}

\* the shapes the callers of the two entry points use: one Run Command bare or in a list,
\* several Run Commands as a Run Workflow
EntryShapes(n) == IF n = 1 THEN {"command", "list"} ELSE {"workflow"}

\* BaseCommandInterpreter._cast_workflow(rw), rw the Run Commands built in the current
\* state; input is the number of Run Commands passed, cast[i] is i when the i-th command
\* of the returned Run Workflow is the i-th Run Command passed, else 0
CastWorkflowAction ==
    \E ds \in RunWorkflowChoices :
    \E shape \in ShapesOf(Len(ds)) :
        /\ \A i \in 1..Len(ds) : ~Raised(BuildRunCommand(ds[i], pmodels).err)
        /\ \E rw \in {[i \in 1..Len(ds) |-> BuildRunCommand(ds[i], pmodels).rc]} :
           \E r \in {CastWorkflow(shape, rw)} :
               /\ UNCHANGED <<cmdvars, objvars, parvars, fnargs>>
               /\ last' = [NoObservation EXCEPT !.op = "cast_workflow", !.shape = shape,
                               !.input = Len(rw),
                               !.err = r.err, !.returned = ~Raised(r.err),
                               !.cast = [i \in 1..Len(r.commands) |->
                                            IF r.commands[i] = rw[i] THEN i ELSE 0]]

\* interpreter.interpret_workflow(rw), rw the Run Commands built in the current state
InterpretAction ==
    \E ds \in RunWorkflowChoices :
    \E shape \in EntryShapes(Len(ds)) :
        /\ \A i \in 1..Len(ds) : ~Raised(BuildRunCommand(ds[i], pmodels).err)
        /\ \E rw \in {[i \in 1..Len(ds) |-> BuildRunCommand(ds[i], pmodels).rc]} :
           \E r \in {InterpretWorkflow(shape, rw, wparams, pmodels)} :
               /\ wparams' = r.params
               /\ pmodels' = r.models
               /\ UNCHANGED <<returns, objvars, parvars, fnargs>>
               /\ last' = [NoObservation EXCEPT !.op = "interpret_workflow", !.cmds = r.cmds,
                               !.shape = shape,
                               !.input = [i \in 1..Len(ds) |-> [rc |-> rw[i], src |-> ds[i]]],
                               !.err = r.err, !.failed_step = r.failed_step,
                               !.returned = ~Raised(r.err)]

\* interpreter.interpret_and_run_workflow(rw), rw the Run Commands built in the current state
InterpretAndRunAction ==
    \E ds \in RunWorkflowChoices :
    \E shape \in EntryShapes(Len(ds)) :
        /\ \A i \in 1..Len(ds) : ~Raised(BuildRunCommand(ds[i], pmodels).err)
        /\ \E rw \in {[i \in 1..Len(ds) |-> BuildRunCommand(ds[i], pmodels).rc]} :
           \E r \in {InterpretAndRunWorkflow(shape, rw, wparams, pmodels)} :
               /\ wparams' = r.params
               /\ pmodels' = r.models
               /\ UNCHANGED <<returns, objvars, parvars, fnargs>>
               /\ last' = [NoObservation EXCEPT !.op = "interpret_and_run_workflow",
                               !.cmds = r.cmds, !.shape = shape,
                               !.input = [i \in 1..Len(ds) |-> [rc |-> rw[i], src |-> ds[i]]],
                               !.err = r.err, !.failed_step = r.failed_step,
                               !.calls = r.calls, !.returned = r.returned, !.log = r.log,
                               !.globals = r.globals, !.writes = r.writes]

NextInterp == CastWorkflowAction \/ InterpretAction \/ InterpretAndRunAction

SpecInterp == Init /\ [][NextInterp]_vars

\* to_run_command arguments of Run Commands that all target the command make
SameCommandChoices ==
    {[cmd |-> "make", var_names |-> <<[k |-> "b", v |-> "g"]>>,
      save_vars |-> <<[k |-> "x", v |-> "g"]>>,
      kwargs |-> <<[k |-> "l", v |-> ListV(<<3>>)], [k |-> "a", v |-> IntV(3)]>>, uuid |-> ""],
     [cmd |-> "make", var_names |-> <<>>, save_vars |-> <<>>,
      kwargs |-> <<[k |-> "l", v |-> ListV(<<3>>)], [k |-> "a", v |-> IntV(3)]>>, uuid |-> ""],
     [cmd |-> "make", var_names |-> <<>>, save_vars |-> <<[k |-> "y", v |-> "h"]>>,
      kwargs |-> <<[k |-> "l", v |-> ListV(<<3>>)], [k |-> "b", v |-> IntV(3)]>>, uuid |-> ""],
     [cmd |-> "make", var_names |-> <<[k |-> "a", v |-> "h"]>>, save_vars |-> <<>>,
      kwargs |-> <<[k |-> "l", v |-> ListV(<<3>>)]>>, uuid |-> ""]}

\* interpreter.interpret_and_run_workflow(BaseRunWorkflow(commands=[rc1, rc2])) with two
\* Run Commands for one registered command; input holds the two Run Commands
InterpretSameCommandAction ==
    \E ds \in [1..2 -> SameCommandChoices] :
        /\ \A i \in 1..Len(ds) : ~Raised(BuildRunCommand(ds[i], pmodels).err)
        /\ \E rw \in {[i \in 1..Len(ds) |-> BuildRunCommand(ds[i], pmodels).rc]} :
           \E r \in {InterpretAndRunWorkflow("workflow", rw, wparams, pmodels)} :
               /\ wparams' = r.params
               /\ pmodels' = r.models
               /\ UNCHANGED <<returns, objvars, parvars, fnargs>>
               /\ last' = [NoObservation EXCEPT !.op = "interpret_same_command",
                               !.cmds = r.cmds, !.shape = "workflow", !.input = rw,
                               !.err = r.err, !.failed_step = r.failed_step,
                               !.calls = r.calls, !.returned = r.returned, !.log = r.log,
                               !.globals = r.globals, !.writes = r.writes]

NextSame == InterpretSameCommandAction

SpecSame == Init /\ [][NextSame]_vars

(***************************************************************************)
(* Operations on the Info Command of a registered command                  *)
(***************************************************************************)
\* var_names a caller passes to to_run_command of command c
VarNamesChoices(c) ==
    {<<>>,
     <<[k |-> ParamOrder(c)[Len(ParamOrder(c))], v |-> "g"]>>,
     <<[k |-> UnknownKey, v |-> "g"]>>}

\* facts about the arguments of to_run_command, as the caller knows them
ToRunCommandFacts(c, var_names, save_vars, kwargs) ==
    (IF ~(Keys(var_names) \subseteq ParamNames(c)) THEN {"unknown_var_name"} ELSE {})
    \cup (IF ~(Keys(kwargs) \subseteq ParamNames(c)) THEN {"unknown_kwarg"} ELSE {})
    \cup (IF \E i \in 1..Len(kwargs) : /\ kwargs[i].k \in ParamNames(c)
                                       /\ ~ValueOk(ParameterModel(c, kwargs[i].k), kwargs[i].v)
          THEN {"invalid_kwarg"} ELSE {})
    \cup (IF ~returns[c].return_signature.none THEN {"signature_declared"} ELSE {})
    \cup (IF ~(Keys(save_vars) \subseteq ReturnSignature(c)) THEN {"unknown_save_key"} ELSE {})

\* The validator of a command assigns `self.return_signature = None` when has_return is
\* False, on a model with validate_assignment=True: the assignment runs the validators
\* of the model again, from inside the validator, which assign again, and the nesting
\* ends when Python raises RecursionError.
ValidatorOutcomes(has_return) ==
    IF has_return THEN {NoError} ELSE {Error("RecursionError", "validate", "")}

\* command.to_info_command().to_run_command(var_names, save_vars, **kwargs): when the
\* validator of the Info Command raises in to_info_command, to_run_command is not reached
ToRunCommandAction ==
    \E c \in CommandNames, save_vars \in SaveVarsChoices :
    \E var_names \in VarNamesChoices(c), kwargs \in KwargsChoices(c) :
    \E e \in ValidatorOutcomes(returns[c].has_return) :
    \E r \in {ToRunCommand(c, pmodels[c], var_names, save_vars, kwargs)} :
    \E err \in {IF Raised(e) THEN e ELSE r.err} :
        /\ UNCHANGED <<cmdvars, objvars, parvars, fnargs>>
        /\ last' = [NoObservation EXCEPT !.op = "to_run_command", !.cmds = <<c>>,
                        !.input = ToRunCommandFacts(c, var_names, save_vars, kwargs),
                        !.err = err, !.returned = ~Raised(err),
                        !.cast = IF Raised(err) THEN <<>> ELSE <<r.rc>>]

\* the commands whose has_return and return_signature a caller edits
EditChoices == {"use"}

SignatureChoices(c) == {SigNone, SigDict({}), DeclaredSignature(c)}

\* command = BaseDriverCommand(..., has_return=hr, return_signature=sig, fn=...) in place
\* of the registered command c; when the construction raises, the caller keeps the
\* command it had
CommandConstruct ==
    \E c \in EditChoices, hr \in BOOLEAN :
    \E sig \in SignatureChoices(c), e \in ValidatorOutcomes(hr) :
        /\ returns' = IF Raised(e) THEN returns
                      ELSE [returns EXCEPT ![c] = [has_return |-> hr,
                                return_signature |-> ValidateReturnSignature(hr, sig)]]
        /\ wparams' = IF Raised(e) THEN wparams
                      ELSE [wparams EXCEPT ![c] = SetParameters(c, pmodels[c])]
        /\ UNCHANGED <<pmodels, objvars, parvars, fnargs>>
        /\ last' = [NoObservation EXCEPT !.op = "construct", !.cmds = <<c>>,
                        !.input = [has_return |-> hr, return_signature |-> sig],
                        !.err = e, !.returned = ~Raised(e)]

\* command.has_return = hr: the field is set, then the validator runs
CommandAssignHasReturn ==
    \E c \in EditChoices, hr \in BOOLEAN :
    \E e \in ValidatorOutcomes(hr) :
        /\ returns' = [returns EXCEPT ![c] = [has_return |-> hr,
                          return_signature |->
                              ValidateReturnSignature(hr, returns[c].return_signature)]]
        /\ UNCHANGED <<wparams, pmodels, objvars, parvars, fnargs>>
        /\ last' = [NoObservation EXCEPT !.op = "assign_has_return", !.cmds = <<c>>,
                        !.input = [has_return |-> hr], !.err = e, !.returned = ~Raised(e)]

\* command.return_signature = sig: the field is set, then the validator runs
CommandAssignReturnSignature ==
    \E c \in EditChoices :
    \E sig \in SignatureChoices(c), e \in ValidatorOutcomes(returns[c].has_return) :
        /\ returns' = [returns EXCEPT ![c].return_signature =
                          ValidateReturnSignature(returns[c].has_return, sig)]
        /\ UNCHANGED <<wparams, pmodels, objvars, parvars, fnargs>>
        /\ last' = [NoObservation EXCEPT !.op = "assign_return_signature", !.cmds = <<c>>,
                        !.input = [return_signature |-> sig],
                        !.err = e, !.returned = ~Raised(e)]

\* command.to_info_command(): BaseInfoCommand(..., has_return=self.has_return,
\* return_signature=self.return_signature); cast holds the fields of the projection
ToInfoCommandAction ==
    \E c \in EditChoices :
    \E e \in ValidatorOutcomes(returns[c].has_return) :
        /\ UNCHANGED <<cmdvars, objvars, parvars, fnargs>>
        /\ last' = [NoObservation EXCEPT !.op = "to_info_command", !.cmds = <<c>>,
                        !.err = e, !.returned = ~Raised(e),
                        !.cast = IF Raised(e) THEN <<>>
                                 ELSE <<[has_return |-> returns[c].has_return,
                                         return_signature |->
                                             ValidateReturnSignature(returns[c].has_return,
                                                 returns[c].return_signature)]>>]

\* command(wf_globals=g, save_vars=sv, **kw) on an edited command
InvokeEdited ==
    \E c \in EditChoices, g \in GlobalsChoices, sv \in SaveVarsChoices :
    \E kw \in KwargsChoices(c) :
    \E r \in {Call(c, wparams[c], g, sv, kw)} :
        /\ wparams' = [wparams EXCEPT ![c] = r.params]
        /\ UNCHANGED <<pmodels, returns, objvars, parvars, fnargs>>
        /\ last' = [NoObservation EXCEPT !.op = "invoke", !.cmds = <<c>>,
                        !.input = KwargFacts(c, wparams[c], g, kw),
                        !.err = r.err, !.calls = r.calls,
                        !.returned = ~Raised(r.err), !.ret = r.ret,
                        !.globals_in = g, !.globals = r.globals, !.writes = r.writes]

NextInfo ==
    \/ ToRunCommandAction
    \/ CommandConstruct
    \/ CommandAssignHasReturn
    \/ CommandAssignReturnSignature
    \/ ToInfoCommandAction
    \/ InvokeEdited
    \/ \E b \in ParamModelChoices : SetParamModel(b)

SpecInfo == Init /\ [][NextInfo]_vars

(***************************************************************************)
(* Driver Commands built around other callables                            *)
(***************************************************************************)
ExtraArgument == "extra"

\* the formal arguments of the callables a caller builds command c around: some or all
\* of its parameters, and those next to an argument that is no parameter
FnChoices(c) ==
    (SUBSET ParamNames(c)) \cup {ParamNames(c) \cup {ExtraArgument}}

BindChoices == {"use"}

\* command = BaseDriverCommand(..., parameters=<those of c>, fn=<callable taking fn>) in
\* place of the registered command c; when the construction raises, the caller keeps the
\* command it had
CommandConstructFn ==
    \E c \in BindChoices :
    \E fn \in FnChoices(c) :
    \E e \in {ValidateParameters(c, fn)} :
        /\ fnargs' = IF Raised(e) THEN fnargs ELSE [fnargs EXCEPT ![c] = fn]
        /\ wparams' = IF Raised(e) THEN wparams
                      ELSE [wparams EXCEPT ![c] = SetParameters(c, pmodels[c])]
        /\ UNCHANGED <<pmodels, returns, objvars, parvars>>
        /\ last' = [NoObservation EXCEPT !.op = "construct_fn", !.cmds = <<c>>,
                        !.input = fn, !.err = e, !.returned = ~Raised(e)]

\* command(wf_globals=g, save_vars=sv, **kw) on a command built around a callable
InvokeBound ==
    \E c \in BindChoices, g \in GlobalsChoices, sv \in SaveVarsChoices :
    \E kw \in KwargsChoices(c) :
    \E r \in {Call(c, wparams[c], g, sv, kw)} :
        /\ wparams' = [wparams EXCEPT ![c] = r.params]
        /\ UNCHANGED <<pmodels, returns, objvars, parvars, fnargs>>
        /\ last' = [NoObservation EXCEPT !.op = "invoke", !.cmds = <<c>>,
                        !.input = KwargFacts(c, wparams[c], g, kw),
                        !.err = r.err, !.calls = r.calls,
                        !.returned = ~Raised(r.err), !.ret = r.ret,
                        !.globals_in = g, !.globals = r.globals, !.writes = r.writes]

NextBind == CommandConstructFn \/ InvokeBound

SpecBind == Init /\ [][NextBind]_vars

(***************************************************************************)
(* BaseInfoWorkflow.to_run_workflow                                        *)
(***************************************************************************)
\* `zip(self.commands, var_name_list, save_var_list)` yields tuples of three items
ZipWidth == 3

\* `for lib_command, uuid, var_names, save_vars in ...` unpacks each tuple into four names
UnpackTargets == 4

\* `if lst is None: lst = len(self.commands)*[None]`
DefaultNoneList(lst, n) == IF lst.none THEN [i \in 1..n |-> NoneEntry] ELSE lst.items

ZipLen(a, b, c) ==
    CHOOSE n \in {Len(a), Len(b), Len(c)} : n <= Len(a) /\ n <= Len(b) /\ n <= Len(c)

\* to_run_workflow(var_name_list, save_var_list) of an Info Workflow whose commands are
\* cmds: only save_var_list is compared with the commands; zip stops at the shortest of
\* the three lists; the first tuple, when there is one, cannot be unpacked
ToRunWorkflow(cmds, var_name_list, save_var_list) ==
    LET svl == DefaultNoneList(save_var_list, Len(cmds))
        vnl == DefaultNoneList(var_name_list, Len(cmds))
    IN IF Len(cmds) # Len(svl)
       THEN [err |-> Error("ValueError", "length", ""), commands |-> <<>>]
       ELSE IF ZipLen(cmds, vnl, svl) > 0 /\ ZipWidth # UnpackTargets
       THEN [err |-> Error("ValueError", "unpack", ""), commands |-> <<>>]
       ELSE [err |-> NoError, commands |-> <<>>]

\* the Info Workflows a caller holds: up to MaxSteps Info Commands of the fixture
InfoWorkflowChoices == UNION {[1..n -> CommandNames] : n \in 0..MaxSteps}

\* the var_names and the save_vars a caller means for one Info Command
VarNamesFor(c) == IF c = "make" THEN <<[k |-> "b", v |-> "g"]>> ELSE <<[k |-> "p", v |-> "g"]>>

SaveVarsFor(c) == IF c = "make" THEN <<[k |-> "x", v |-> "g"]>> ELSE <<[k |-> "z", v |-> "g"]>>

\* how a list argument of to_run_workflow is formed from the per-command entries
ListArgShapes == {"none", "same", "same_none", "short", "long"}

ShapeArg(items, shape) ==
    IF shape = "none" THEN NoneList
    ELSE IF shape = "same_none" THEN SomeList([i \in 1..Len(items) |-> NoneEntry])
    ELSE IF shape = "short" THEN SomeList(SubSeq(items, 1, Len(items) - 1))
    ELSE IF shape = "long" THEN SomeList(Append(items, NoneEntry))
    ELSE SomeList(items)

\* BaseInfoWorkflow(name=..., commands=cmds).to_run_workflow(vnl, svl); cast holds the
\* commands of the Run Workflow returned
ToRunWorkflowAction ==
    \E cmds \in InfoWorkflowChoices :
    \E vshape \in ListArgShapes, sshape \in ListArgShapes :
    \E vnl \in {ShapeArg([i \in 1..Len(cmds) |-> DictEntry(VarNamesFor(cmds[i]))], vshape)} :
    \E svl \in {ShapeArg([i \in 1..Len(cmds) |-> DictEntry(SaveVarsFor(cmds[i]))], sshape)} :
    \E r \in {ToRunWorkflow(cmds, vnl, svl)} :
        /\ UNCHANGED <<cmdvars, objvars, parvars, fnargs>>
        /\ last' = [NoObservation EXCEPT !.op = "to_run_workflow", !.cmds = cmds,
                        !.input = [save_vars |-> svl, var_names |-> vnl],
                        !.err = r.err, !.returned = ~Raised(r.err), !.cast = r.commands]

NextInfoWf == ToRunWorkflowAction

SpecInfoWf == Init /\ [][NextInfoWf]_vars

(***************************************************************************)
(* Operations on a Parameter built from a ParameterModel                   *)
(***************************************************************************)
MaxList == 2        \* elements of one assigned list

\* below the lower limit, inside with and without membership, above the upper limit
ElementChoices == {-1, 3, 7, 11}

ListChoices == UNION {[1..n -> ElementChoices] : n \in 0..MaxList}

AssignChoices == {NoneV} \cup {IntV(n) : n \in ElementChoices} \cup {ListV(s) : s \in ListChoices}

\* ParameterModel objects of data_type int that pass ParameterModel.validate: the default
\* of each satisfies its limits and allowed values; an allowed value may lie outside
\* the limits (_validate_allowed_values looks at the types only)
ModelChoices ==
    {[is_list |-> l, upper_limit |-> u, lower_limit |-> d, allowed_values |-> a, default |-> f] :
        l \in BOOLEAN, u \in {NoneV, IntV(10)}, d \in {NoneV, IntV(0)},
        a \in {<<>>, <<3, 11>>}, f \in {NoneV, IntV(3), ListV(<<3>>)}}

ValidModelChoices ==
    {m \in ModelChoices : m.default.t = "none" \/ (m.default.t = "list") = m.is_list}

\* the elements a value holds: of a list its elements, of a scalar itself
Elements(v) ==
    IF v.t = "list" THEN {v.s[i] : i \in 1..Len(v.s)}
    ELSE IF v.t = "int" THEN {v.n}
    ELSE {}

OutOfRange(m, x) ==
    \/ m.upper_limit.t # "none" /\ x > m.upper_limit.n
    \/ m.lower_limit.t # "none" /\ x < m.lower_limit.n

\* facts about the assignment `parameter.value = v`, as the caller knows them
AssignFacts(m, v) ==
    {v.t}
    \cup (IF \E x \in Elements(v) : OutOfRange(m, x) THEN {"out_of_range"} ELSE {})
    \cup (IF \E x \in Elements(v) : ~OutOfRange(m, x) THEN {"in_range"} ELSE {})
    \cup (IF \E x \in Elements(v) : ~SeqMember(x, m.allowed_values)
          THEN {"non_member"} ELSE {})
    \cup (IF \E x \in Elements(v) : SeqMember(x, m.allowed_values)
          THEN {"member"} ELSE {})

\* Value = model.to_param(); container = Value()
ContainerBuild ==
    \E m \in ValidModelChoices :
        /\ container' = [m |-> m, value |-> m.default]
        /\ UNCHANGED <<cmdvars, objvars, pspec, fnargs>>
        /\ last' = [NoObservation EXCEPT !.op = "to_param", !.returned = TRUE]

\* container.value = v (validate_assignment=True: the field validators run on v and
\* the value is set when none of them raised); cast holds an assigned scalar
ContainerAssign ==
    \E v \in AssignChoices :
    \E failed \in {FailedValidator(container.m, v)} :
        /\ container' = IF failed = "" THEN [container EXCEPT !.value = v] ELSE container
        /\ UNCHANGED <<cmdvars, objvars, pspec, fnargs>>
        /\ last' = [NoObservation EXCEPT !.op = "assign_value",
                        !.input = AssignFacts(container.m, v),
                        !.cast = IF v.t = "list" THEN <<>> ELSE <<v>>,
                        !.err = IF failed = "" THEN NoError
                                ELSE Error("ValidationError", failed, ""),
                        !.returned = (failed = "")]

MaxValue == 12      \* magnitude of a value an in-place operator stores

\* operands of the in-place operators
OperandChoices == {IntV(2), IntV(3), IntV(6), ListV(<<11>>)}

RECURSIVE Repeat(_, _)
\* s * n of Python for a list s
Repeat(s, n) == IF n <= 0 THEN <<>> ELSE s \o Repeat(s, n - 1)

UnsupportedOperand == [t |-> "unsupported", n |-> 0, s |-> <<>>]

\* value + other, value - other, value * other, value ** other of Python for None, ints
\* and lists; UnsupportedOperand where Python raises TypeError
BinaryOperator(op, value, other) ==
    IF value.t = "int" /\ other.t = "int"
    THEN IntV(CASE op = "iadd" -> value.n + other.n
                [] op = "isub" -> value.n - other.n
                [] op = "imul" -> value.n * other.n
                [] op = "ipow" -> value.n ^ other.n)
    ELSE IF op = "iadd" /\ value.t = "list" /\ other.t = "list" THEN ListV(value.s \o other.s)
    ELSE IF op = "imul" /\ value.t = "list" /\ other.t = "int" THEN ListV(Repeat(value.s, other.n))
    ELSE IF op = "imul" /\ value.t = "int" /\ other.t = "list" THEN ListV(Repeat(other.s, value.n))
    ELSE UnsupportedOperand

\* container += other, -= other, *= other, **= other (__iadd__, __isub__, __imul__,
\* __ipow__): self.value <op>= other. Python evaluates the operator on the value the
\* container holds, a list in place, and assigns the result to `value`, where the
\* validators run as for any assignment: a list that failed them is extended all the same
ContainerInPlace ==
    \E op \in {"iadd", "isub", "imul", "ipow"}, other \in OperandChoices :
    \E r \in {BinaryOperator(op, container.value, other)} :
    \E failed \in {IF r.t = "unsupported" THEN "" ELSE FailedValidator(container.m, r)} :
    \E stored \in {IF r.t = "unsupported" THEN container.value
                   ELSE IF failed = "" \/ container.value.t = "list" THEN r
                   ELSE container.value} :
        /\ stored.t = "int" => stored.n \in -MaxValue..MaxValue
        /\ stored.t = "list" => Len(stored.s) <= MaxList
        /\ container' = [container EXCEPT !.value = stored]
        /\ UNCHANGED <<cmdvars, objvars, pspec, fnargs>>
        /\ last' = [NoObservation EXCEPT !.op = op,
                        !.input = IF r.t = "unsupported" THEN {"unsupported"}
                                  ELSE AssignFacts(container.m, r),
                        !.err = IF r.t = "unsupported" THEN Error("TypeError", "operator", "")
                                ELSE IF failed # "" THEN Error("ValidationError", failed, "")
                                ELSE NoError,
                        !.returned = r.t # "unsupported" /\ failed = ""]

DataTypes == {"str", "int", "float", "bool"}

\* limits as a caller passes them: None, 0, 1, 2, 1.5, "9", "10", "abc"
LimitChoices ==
    {PyNone, PyInt(0), PyInt(1), PyInt(2), PyFloat(15, -1), PyStr(<<"9">>), PyStr(<<"1", "0">>),
     PyStr(<<"a", "b", "c">>)}

AllowedValuesChoices == {<<>>, <<PyStr(<<"a", "b", "c">>)>>}

\* defaults as a caller passes them: None, 1, "9"
DefaultChoices == {PyNone, PyInt(1), PyStr(<<"9">>)}

\* model = ParameterModel(name=..., data_type=..., upper_limit=..., lower_limit=...,
\* allowed_values=..., is_list=..., default=...)
ModelConstruct ==
    \E data_type \in DataTypes, upper \in LimitChoices, lower \in LimitChoices :
    \E allowed \in AllowedValuesChoices, is_list \in BOOLEAN, default \in DefaultChoices :
    \E r \in {ValidateModel(data_type, upper, lower, allowed, is_list, default)} :
        /\ pspec' = r.spec
        /\ UNCHANGED <<cmdvars, objvars, container, fnargs>>
        /\ last' = [NoObservation EXCEPT !.op = "construct_model",
                        !.input = [is_list |-> is_list, upper_limit |-> upper,
                                   lower_limit |-> lower, default |-> default,
                                   data_type |-> data_type,
                                   others |-> Len(allowed) > 0 \/ is_list \/ default.t # "none"],
                        !.err = r.err, !.returned = ~Raised(r.err)]

\* _assign_value: the `value` field of the class to_param builds has the default of the
\* model as its default
AssignValue(spec) == spec.default

\* Value = model.to_param(); Value() for the model the last construction returned; cast
\* holds the value of the new Parameter, input keeps the arguments the model was
\* constructed with
ModelToParam ==
    /\ pspec.built
    /\ UNCHANGED <<cmdvars, objvars, parvars, fnargs>>
    /\ last' = [NoObservation EXCEPT !.op = "model_to_param", !.input = last.input,
                    !.returned = TRUE, !.cast = <<AssignValue(pspec)>>]

NextModel == ModelConstruct \/ ModelToParam

SpecModel == Init /\ [][NextModel]_vars

NextParam ==
    \/ ContainerBuild
    \/ ContainerAssign
    \/ ContainerInPlace

SpecParam == Init /\ [][NextParam]_vars

(***************************************************************************)
(* Operations on a command library                                         *)
(***************************************************************************)
\* library = BaseCommandLibrary(name=..., microservices=ms)
LibraryConstruct ==
    \E ms \in MicroservicesChoices :
        /\ library' = NewLibrary(ms)
        /\ UNCHANGED <<cmdvars, micro, parvars, fnargs>>
        /\ last' = [NoObservation EXCEPT !.op = "library_construct"]

\* library.microservices = ms: validate_assignment runs validate_command_library
LibraryAssign ==
    \E ms \in MicroservicesChoices :
        /\ library' = [microservices |-> ms, index |-> UuidIndex(ms)]
        /\ UNCHANGED <<cmdvars, micro, parvars, fnargs>>
        /\ last' = [NoObservation EXCEPT !.op = "library_assign"]

\* library[key] = m: BaseCommandLibrary.__setitem__ -> self.microservices.__setitem__
LibrarySetItem ==
    \E key \in LibraryKeys, m \in MicroserviceChoices :
        /\ library' = [library EXCEPT !.microservices = DictSet(library.microservices, key, m)]
        /\ UNCHANGED <<cmdvars, micro, parvars, fnargs>>
        /\ last' = [NoObservation EXCEPT !.op = "library_setitem"]

NextLib == LibrarySetItem \/ LibraryConstruct \/ LibraryAssign

SpecLib == Init /\ [][NextLib]_vars

(***************************************************************************)
(* Operations on a microservice                                            *)
(***************************************************************************)
\* micro = BaseMicroservice(name=name, commands=commands); when the validator raises
\* no object is built and the caller keeps the one it had
MicroserviceConstruct ==
    \E name \in {"synth", "prep"}, commands \in CommandsChoices :
    \E e \in {ValidateMicroservice(name, commands)} :
        /\ micro' = IF Raised(e) THEN micro ELSE [name |-> name, commands |-> commands]
        /\ UNCHANGED <<cmdvars, library, parvars, fnargs>>
        /\ last' = [NoObservation EXCEPT !.op = "microservice_construct", !.err = e]

\* micro.commands = commands under validate_assignment.  validate_microservice is an
\* 'after' validator of the model: it runs on the object that already holds the new
\* dict, and the new dict stays on the object when the validator raises.
MicroserviceAssign ==
    \E commands \in CommandsChoices :
    \E e \in {ValidateMicroservice(micro.name, commands)} :
        /\ micro' = [micro EXCEPT !.commands = commands]
        /\ UNCHANGED <<cmdvars, library, parvars, fnargs>>
        /\ last' = [NoObservation EXCEPT !.op = "microservice_assign", !.err = e]

\* micro[key] = command: BaseMicroservice.__setitem__ -> self.commands.__setitem__
MicroserviceSetItem ==
    \E key \in CommandNames, command \in CommandChoices :
        /\ micro' = [micro EXCEPT !.commands = DictSet(micro.commands, key, command)]
        /\ UNCHANGED <<cmdvars, library, parvars, fnargs>>
        /\ last' = [NoObservation EXCEPT !.op = "microservice_setitem"]

NextMicro == MicroserviceSetItem \/ MicroserviceConstruct \/ MicroserviceAssign

SpecMicro == Init /\ [][NextMicro]_vars

(***************************************************************************)
(* Properties of BaseDriverCommand.__call__ (SpecCmd)                      *)
(***************************************************************************)
Values(wps) == [c \in CommandNames |-> PrevArgs(wps[c])]

\* the value of global var after the writes ws were made in order on globals g
LastWrite(ws, var) == CHOOSE k \in 1..Len(ws) : ws[k].var = var /\ \A j \in (k+1)..Len(ws) : ws[j].var # var

Written(ws) == {ws[k].var : k \in 1..Len(ws)}

\* C1: an invoke whose kwargs keys are all declared and one of whose kwargs values fails
\* validation raises, leaves every working parameter value as it was before the call and
\* does not invoke the bound callable.
C1_AtomicKwargsUpdate ==
    [][(/\ last'.op = "invoke"
        /\ "unknown_kwarg" \notin last'.input
        /\ "invalid_kwarg" \in last'.input)
       => (/\ Raised(last'.err)
           /\ last'.calls = <<>>
           /\ Values(wparams') = Values(wparams))]_vars

\* C2: an invoke whose kwargs are all accepted and in which a global's value fails the
\* validation of the parameter indirected to it raises, leaves every working parameter
\* value as it was before the call (the kwargs of this call undone) and does not invoke
\* the bound callable.
C2_AtomicVariableResolution ==
    [][(/\ last'.op = "invoke"
        /\ "unknown_kwarg" \notin last'.input
        /\ "invalid_kwarg" \notin last'.input
        /\ "invalid_global" \in last'.input)
       => (/\ Raised(last'.err)
           /\ last'.calls = <<>>
           /\ Values(wparams') = Values(wparams))]_vars

\* C25: in every invoke of a command that passed construction, each keyword argument
\* built from the working parameters is a formal argument of the bound callable, and the
\* invoke does not fail when the callable is bound to its arguments.
C25_BindableCall ==
    last.op = "invoke" =>
        /\ DOMAIN wparams[last.cmds[1]] \subseteq FnSignature(last.cmds[1])
        /\ ~(last.err.kind = "TypeError" /\ last.err.stage = "call")

\* entry i of a list argument as the caller means it: {} for None
EntryOf(lst, i) == IF lst.none \/ lst.items[i].none THEN <<>> ELSE lst.items[i].kv

\* the length of a list argument of to_run_workflow, an omitted one counting as n
ListArgLen(lst, n) == IF lst.none THEN n ELSE Len(lst.items)

\* C26: to_run_workflow on an Info Workflow of n commands with var_name_list and
\* save_var_list of length n (or omitted) returns a Run Workflow of exactly n Run
\* Commands, the i-th built from the i-th Info Command with the i-th entries; a
\* save_var_list of another length raises.
C26_ToRunWorkflowStepByStep ==
    last.op = "to_run_workflow" =>
        LET n == Len(last.cmds) IN
        /\ ListArgLen(last.input.save_vars, n) # n => Raised(last.err)
        /\ (/\ ListArgLen(last.input.save_vars, n) = n
            /\ ListArgLen(last.input.var_names, n) = n)
           => /\ last.returned
              /\ Len(last.cast) = n
              /\ \A i \in 1..Len(last.cast) :
                    /\ last.cast[i].name = last.cmds[i]
                    /\ last.cast[i].save_vars = EntryOf(last.input.save_vars, i)

\* C27: in an invoke, a parameter flagged from_var whose var_name is not a key of the
\* globals passed in causes no error of the variable resolution, and when the callable
\* runs it receives for that parameter the kwarg of this call if one was given and
\* otherwise the value the parameter had before the call.
C27_UnresolvedVariableSkipped ==
    [][last'.op = "invoke"
       => \A p \in ParamNames(last'.cmds[1]) :
              (/\ wparams[last'.cmds[1]][p].from_var
               /\ wparams[last'.cmds[1]][p].var_name \notin DOMAIN last'.globals_in)
              => /\ ~(last'.err.stage = "variables")
                 /\ last'.calls # <<>>
                    => last'.calls[1].args[p] =
                           IF \E j \in 1..Len(last'.cast) : last'.cast[j].k = p
                           THEN last'.cast[CHOOSE j \in 1..Len(last'.cast) :
                                               last'.cast[j].k = p].v
                           ELSE wparams[last'.cmds[1]][p].value]_vars

\* b is indirected to g, the globals are empty, no kwarg names b: the callable got the 3
\* an earlier invoke left in b
C27_Witness ==
    /\ last.op = "invoke"
    /\ wparams["make"]["b"].from_var
    /\ last.globals_in = EmptyDict
    /\ last.cast = <<>>
    /\ last.calls # <<>>
    /\ last.calls[1].args["b"] = IntV(3)

NoKwargs(obs) == obs.input \cap {"unknown_kwarg", "invalid_kwarg", "valid_kwarg"} = {}

\* C28: an invoke without kwargs that reaches the callable passes, for every parameter it
\* resolves no global for, the value the parameter had before the call, which is what the
\* earlier invokes left there and not the default of its model.
C28_ValuesPersist ==
    [][(/\ last'.op = "invoke"
        /\ NoKwargs(last')
        /\ last'.calls # <<>>)
       => \A p \in ParamNames(last'.cmds[1]) :
              ~(/\ wparams[last'.cmds[1]][p].from_var
                /\ wparams[last'.cmds[1]][p].var_name \in DOMAIN last'.globals_in)
              => last'.calls[1].args[p] = wparams[last'.cmds[1]][p].value]_vars

\* an invoke without kwargs called make with a = 3, which an earlier invoke had set; the
\* default of a is 5
C28_Witness ==
    /\ last.op = "invoke"
    /\ NoKwargs(last)
    /\ last.calls # <<>>
    /\ ParameterModel("make", "a").default = IntV(5)
    /\ last.calls[1].args["a"] = IntV(3)

\* C29: when a command with has_return ran its callable and save_vars names a key the
\* result lacks, the invoke raises KeyError for the first such key after the callable
\* ran, the working parameters keep the values the callable was called with, and the
\* globals hold the writes of the save_vars pairs before that key and of no later pair.
C29_SaveNotAtomic ==
    [][(/\ last'.op = "invoke"
        /\ last'.calls # <<>>
        /\ HasReturn(last'.cmds[1])
        /\ \E j \in 1..Len(last'.calls[1].save_vars) :
               last'.calls[1].save_vars[j].k \notin DOMAIN last'.calls[1].result)
       => LET call == last'.calls[1]
              n == Len(last'.writes)
          IN /\ last'.err.kind = "KeyError"
             /\ last'.err.stage = "save"
             /\ Values(wparams')[call.cmd] = call.args
             /\ n < Len(call.save_vars)
             /\ call.save_vars[n + 1].k = last'.err.param
             /\ call.save_vars[n + 1].k \notin DOMAIN call.result
             /\ \A j \in 1..n :
                   /\ call.save_vars[j].k \in DOMAIN call.result
                   /\ last'.writes[j] = [var |-> call.save_vars[j].v,
                                         value |-> call.result[call.save_vars[j].k]]
             /\ DOMAIN last'.globals = DOMAIN last'.globals_in \cup Written(last'.writes)
             /\ \A var \in DOMAIN last'.globals :
                   last'.globals[var] = IF var \in Written(last'.writes)
                                        THEN last'.writes[LastWrite(last'.writes, var)].value
                                        ELSE last'.globals_in[var]]_vars

\* make(a=3) with save_vars {x: g, w: h}: KeyError for w after g was written with x = 3
C29_Witness ==
    /\ last.op = "invoke"
    /\ last.err = Error("KeyError", "save", "w")
    /\ Len(last.calls) = 1
    /\ last.calls[1].args["a"] = IntV(3)
    /\ wparams["make"]["a"].value = IntV(3)
    /\ last.writes = <<[var |-> "g", value |-> IntV(3)]>>
    /\ "g" \in DOMAIN last.globals
    /\ last.globals["g"] = IntV(3)
    /\ "h" \notin DOMAIN last.globals

DefaultOmitted(obs) == ~obs.input.is_list /\ obs.input.default = PyNone

\* C30: the construction of a scalar ParameterModel without a default succeeds for every
\* data_type and any limits and allowed_values that pass their own checks and leaves
\* default None, and the Parameter then built from the model starts with value None.
C30_OmittedDefaultStaysUnset ==
    /\ (/\ last.op = "construct_model"
        /\ DefaultOmitted(last)
        /\ last.err.stage \notin {"validate_limits", "validate_allowed_values"})
           => (~Raised(last.err) /\ pspec.built /\ pspec.default = PyNone)
    /\ (last.op = "model_to_param" /\ DefaultOmitted(last))
           => last.cast = <<PyNone>>

\* C22: whenever an invoke fails inside the parameter update (a kwarg or a resolved
\* global fails validation), the error reaching the caller is the one of the offending
\* assignment (the revert loop itself did not raise) and every working parameter value
\* is back at its value from before the call.
C22_RollbackCompletes ==
    [][(/\ last'.op = "invoke"
        /\ Raised(last'.err)
        /\ last'.err.stage \in {"kwargs", "variables"})
       => (/\ last'.err.reverted_at = ""
           /\ Values(wparams') = Values(wparams))]_vars

\* C23: in an invoke that reached the bound callable, every parameter flagged from_var
\* whose var_name is a key of the globals passed in is received by the callable with the
\* global's value, whatever kwarg or literal value the parameter had.
C23_IndirectionOverridesLiterals ==
    (last.op = "invoke" /\ last.calls # <<>>)
        => \A p \in ParamNames(last.cmds[1]) :
               (/\ wparams[last.cmds[1]][p].from_var
                /\ wparams[last.cmds[1]][p].var_name \in DOMAIN last.globals_in)
               => last.calls[1].args[p] = last.globals_in[wparams[last.cmds[1]][p].var_name]

\* b is indirected to g, the call passed b = 3 as a kwarg and g = 7: the callable got 7
C23_Witness ==
    /\ last.op = "invoke"
    /\ "overridden_kwarg" \in last.input
    /\ last.calls # <<>>
    /\ wparams["make"]["b"].from_var
    /\ last.globals_in = [x \in {"g"} |-> IntV(7)]
    /\ last.calls[1].args["b"] = IntV(7)

\* C10: an invoke with a kwargs key that is not a declared parameter raises the
\* unknown-argument KeyError and changes no working parameter, no parameter model and no
\* global, and does not invoke the bound callable.
C10_UnknownKwargRejectedFirst ==
    [][(/\ last'.op = "invoke"
        /\ "unknown_kwarg" \in last'.input)
       => (/\ last'.err.kind = "KeyError"
           /\ last'.err.stage = "validate_kwargs"
           /\ wparams' = wparams
           /\ pmodels' = pmodels
           /\ last'.globals = last'.globals_in
           /\ last'.calls = <<>>)]_vars

\* an unknown key was rejected although another kwarg of the call was valid
C10_Witness ==
    /\ last.op = "invoke"
    /\ "unknown_kwarg" \in last.input
    /\ "valid_kwarg" \in last.input
    /\ last.err = Error("KeyError", "validate_kwargs", UnknownKey)
    /\ last.globals_in # EmptyDict

(***************************************************************************)
(* Properties of BaseDriverWorkflow.exec (SpecWf)                          *)
(***************************************************************************)
\* C4: when a step that returns its result ran with save_vars {k: var} and its result has
\* key k, the next step's callable receives, for every parameter indirected to var, the
\* value the earlier step produced for k.
C4_WorkflowSequencing ==
    last.op = "exec" =>
        \A i \in 1..(Len(last.calls) - 1) :
            LET c1 == last.calls[i]
                c2 == last.calls[i + 1]
            IN (/\ HasReturn(c1.cmd)
                /\ Len(c1.save_vars) = 1
                /\ c1.save_vars[1].k \in DOMAIN c1.result)
               => \A p \in ParamNames(c2.cmd) :
                     (/\ wparams[c2.cmd][p].from_var
                      /\ wparams[c2.cmd][p].var_name = c1.save_vars[1].v)
                     => c2.args[p] = c1.result[c1.save_vars[1].k]

\* step 1 saved x = 3 to g and step 2 was called with b = 3 read from g
C4_Witness ==
    /\ last.op = "exec"
    /\ Len(last.calls) = 2
    /\ last.calls[1].save_vars = <<[k |-> "x", v |-> "g"]>>
    /\ last.calls[1].result["x"] = IntV(3)
    /\ last.calls[2].cmd = "make"
    /\ wparams["make"]["b"].from_var
    /\ wparams["make"]["b"].var_name = "g"
    /\ last.calls[2].args["b"] = IntV(3)

LengthMismatch(obs) ==
    \/ obs.input.list_kwargs # Len(obs.cmds)
    \/ obs.input.list_save_vars # Len(obs.cmds)

\* C6: an exec whose list_kwargs or list_save_vars (after defaulting) has not one entry
\* per command raises the length ValueError, invokes no command and leaves the globals
\* and every working parameter unchanged.
C6_ExecLengthPrecondition ==
    [][(last'.op = "exec" /\ LengthMismatch(last'))
       => (/\ last'.err = Error("ValueError", "length", "")
           /\ last'.calls = <<>>
           /\ last'.globals = last'.globals_in
           /\ wparams' = wparams)]_vars

\* list_save_vars longer than the commands, list_kwargs of the right length
C6_Witness ==
    /\ last.op = "exec"
    /\ last.input.list_kwargs = Len(last.cmds)
    /\ last.input.list_save_vars > Len(last.cmds)
    /\ last.err = Error("ValueError", "length", "")

\* C7: when step i of exec raises, no command after step i was invoked, the exception
\* reached the caller, and the globals hold every save_vars write made so far (the last
\* write to each variable) next to the untouched entries they started with.
C7_NoCrossStepRollback ==
    (last.op = "exec" /\ last.failed_step > 0) =>
        /\ Raised(last.err)
        /\ ~last.returned
        /\ Len(last.calls) <= last.failed_step
        /\ \A j \in 1..Len(last.calls) : last.calls[j].cmd = last.cmds[j]
        /\ DOMAIN last.globals = DOMAIN last.globals_in \cup Written(last.writes)
        /\ \A var \in DOMAIN last.globals :
              last.globals[var] = IF var \in Written(last.writes)
                                  THEN last.writes[LastWrite(last.writes, var)].value
                                  ELSE last.globals_in[var]

\* step 2 raised after step 1 had saved 3 to g
C7_Witness ==
    /\ last.op = "exec"
    /\ last.failed_step = 2
    /\ Len(last.calls) = 1
    /\ Len(last.writes) = 1
    /\ last.globals_in # EmptyDict
    /\ "g" \in DOMAIN last.globals
    /\ last.globals["g"] = IntV(3)

\* C24: an exec that returned invoked every command exactly once in list order, each
\* with its own save_vars entry and with the values of its own kwargs entry (a None
\* entry counting as {}), all on the one globals dict (the final globals are the initial
\* ones plus the writes of the steps), and the log has one entry per command, entry i
\* being the result of command i.
C24_ExecSequential ==
    (last.op = "exec" /\ last.returned) =>
        /\ Len(last.calls) = Len(last.cmds)
        /\ Len(last.log) = Len(last.cmds)
        /\ \A i \in 1..Len(last.calls) :
              /\ last.calls[i].cmd = last.cmds[i]
              /\ last.calls[i].save_vars = EntryOf(last.input.save_vars, i)
              /\ \A j \in 1..Len(EntryOf(last.input.kwargs, i)) :
                    LET e == EntryOf(last.input.kwargs, i)[j] IN
                    ~wparams[last.cmds[i]][e.k].from_var => last.calls[i].args[e.k] = e.v
              /\ last.log[i] = IF HasReturn(last.cmds[i])
                               THEN ResultDict(last.calls[i].result) ELSE ResultNone
        /\ DOMAIN last.globals = DOMAIN last.globals_in \cup Written(last.writes)
        /\ \A var \in DOMAIN last.globals :
              last.globals[var] = IF var \in Written(last.writes)
                                  THEN last.writes[LastWrite(last.writes, var)].value
                                  ELSE last.globals_in[var]

\* make(a=3) saving x to g, then use with a None kwargs entry and a None save_vars entry
C24_Witness ==
    /\ last.op = "exec"
    /\ last.returned
    /\ last.cmds = <<"make", "use">>
    /\ ~last.input.kwargs.none
    /\ last.input.kwargs.items[2].none
    /\ last.input.save_vars.items[2].none
    /\ last.calls[1].args["a"] = IntV(3)
    /\ last.calls[2].save_vars = <<>>
    /\ last.log = <<ResultDict(last.calls[1].result), ResultDict(last.calls[2].result)>>
    /\ last.writes = <<[var |-> "g", value |-> IntV(3)]>>

\* C8: when step i of exec raises, the caller still obtains an output log that holds
\* exactly the results of steps 0..i-1.
C8_ResultsSurviveFailure ==
    (last.op = "exec" /\ last.failed_step > 0) =>
        /\ Len(last.log) = last.failed_step - 1
        /\ \A j \in 1..Len(last.log) :
              last.log[j] = IF HasReturn(last.calls[j].cmd)
                            THEN ResultDict(last.calls[j].result) ELSE ResultNone

(***************************************************************************)
(* Properties of the interpreter (SpecInterp)                              *)
(***************************************************************************)
InterpreterOps == {"interpret_workflow", "interpret_and_run_workflow"}

\* C3: interpret_workflow and interpret_and_run_workflow leave the working parameters
\* (value, from_var, var_name) of every registered Driver Command as they were.
C3_TemplateIsolation ==
    [][(last'.op \in InterpreterOps) => wparams' = wparams]_vars

\* C5: interpreting a Run Workflow one of whose Run Commands has a uuid that is not a key
\* of the library's UUID index raises the unknown-microservice KeyError, with no command
\* resolved and no callable invoked.
C5_UnknownUuidRejected ==
    (/\ last.op \in InterpreterOps
     /\ \E i \in 1..Len(last.input) : last.input[i].rc.uuid \notin UuidKeys)
    => (/\ last.err.kind = "KeyError"
        /\ last.err.stage = "uuid"
        /\ last.cmds = <<>>
        /\ last.calls = <<>>)

\* what the caller of a direct invoke observes
CallView(r) ==
    [raised |-> Raised(r.err),
     calls |-> [j \in 1..Len(r.calls) |-> [cmd |-> r.calls[j].cmd, args |-> r.calls[j].args]],
     log |-> IF Raised(r.err) THEN <<>> ELSE <<r.ret>>,
     globals |-> r.globals]

\* what the caller of interpret_and_run_workflow observes
RunView(obs) ==
    [raised |-> Raised(obs.err),
     calls |-> [j \in 1..Len(obs.calls) |-> [cmd |-> obs.calls[j].cmd, args |-> obs.calls[j].args]],
     log |-> obs.log,
     globals |-> obs.globals]

\* C9: interpret_and_run_workflow on the Run Command that
\* to_run_command(var_names, save_vars, **kwargs) built for a library command invokes the
\* callable with the same arguments, result and globals writes as invoking the Driver
\* Command directly with these kwargs and save_vars on empty globals (the Run Command is
\* passed as a one-element list).
C9_RoundTripEqualsDirect ==
    [][(/\ last'.op = "interpret_and_run_workflow"
        /\ last'.shape = "list"
        /\ Len(last'.input) = 1
        /\ last'.input[1].src.uuid = "")
       => RunView(last') = CallView(Call(last'.input[1].src.cmd, wparams[last'.input[1].src.cmd],
                                         EmptyDict, last'.input[1].src.save_vars,
                                         last'.input[1].src.kwargs))]_vars

\* C21: when the two Run Commands of a Run Workflow resolve to one registered command
\* that carries no indirection, each step's callable receives, for every parameter its
\* own Run Command gives as a literal, that literal, whatever the other step binds.
C21_StepsIndependent ==
    [][(/\ last'.op = "interpret_same_command"
        /\ last'.returned
        /\ \A c \in CommandNames : \A p \in ParamNames(c) :
               ~wparams[c][p].from_var /\ ~pmodels[c][p].from_var)
       => \A i \in 1..Len(last'.input) : \A p \in DOMAIN last'.input[i].parameters :
              ~last'.input[i].parameters[p].from_var
                  => last'.calls[i].args[p] = last'.input[i].parameters[p].value]_vars

\* C11: _cast_workflow returns, for a single Run Command, a list of Run Commands and a
\* Run Workflow alike, a Run Workflow whose commands are the given Run Commands in their
\* order, and interpret_workflow / interpret_and_run_workflow do not fail on a single Run
\* Command because of its shape.
C11_CastNormalizesShapes ==
    /\ last.op = "cast_workflow"
       => (/\ ~Raised(last.err)
           /\ last.cast = [i \in 1..last.input |-> i])
    /\ last.op \in InterpreterOps => last.err.stage # "cast"

\* C14: no operation of the interpreter (interpret_workflow with its binding of the Run
\* Commands, interpret_and_run_workflow with the invokes of exec) changes an attribute of
\* a ParameterModel in the parameters map of a registered command.
C14_ParameterModelImmutable ==
    [][pmodels' = pmodels]_vars

(***************************************************************************)
(* Properties of the Info Command (SpecInfo)                               *)
(***************************************************************************)
\* C15: to_run_command with a var_names key or a kwargs key that is not a parameter, or
\* with a save_vars key outside a declared (not None) return_signature, raises KeyError,
\* returns no Run Command and changes nothing of the command.
C15_ToRunCommandPreconditions ==
    [][(/\ last'.op = "to_run_command"
        /\ \/ "unknown_var_name" \in last'.input
           \/ "unknown_kwarg" \in last'.input
           \/ {"signature_declared", "unknown_save_key"} \subseteq last'.input)
       => (/\ last'.err.kind = "KeyError"
           /\ ~last'.returned
           /\ last'.cast = <<>>
           /\ pmodels' = pmodels
           /\ returns' = returns
           /\ wparams' = wparams)]_vars

\* C19: an invoke of a command whose has_return is False, with acceptable kwargs and
\* globals, calls the bound callable once, returns None although the callable returned a
\* dict, and writes nothing to the globals whatever save_vars holds.
C19_NoReturnDiscardsResult ==
    [][(/\ last'.op = "invoke"
        /\ ~HasReturn(last'.cmds[1])
        /\ last'.input \subseteq {"valid_kwarg"})
       => (/\ ~Raised(last'.err)
           /\ Len(last'.calls) = 1
           /\ last'.ret = ResultNone
           /\ last'.writes = <<>>
           /\ last'.globals = last'.globals_in)]_vars

\* a command with has_return False was invoked with two save_vars entries and its
\* callable returned a result
C19_Witness ==
    /\ last.op = "invoke"
    /\ ~HasReturn(last.cmds[1])
    /\ Len(last.calls) = 1
    /\ Len(last.calls[1].save_vars) = 2
    /\ DOMAIN last.calls[1].result # {}
    /\ last.ret = ResultNone

\* C20: every command with has_return False has return_signature None, and so has the
\* Info Command that to_info_command builds from it.
C20_ReturnSignatureInvariant ==
    /\ \A c \in CommandNames : ~returns[c].has_return => returns[c].return_signature = SigNone
    /\ (last.op = "to_info_command" /\ last.returned)
       => (~last.cast[1].has_return => last.cast[1].return_signature = SigNone)

\* a dict was assigned to return_signature of a command with has_return False
C20_Witness ==
    /\ last.op = "assign_return_signature"
    /\ ~last.input.return_signature.none
    /\ ~returns[last.cmds[1]].has_return
    /\ returns[last.cmds[1]].return_signature = SigNone

(***************************************************************************)
(* Properties of the parameter objects (SpecParam)                         *)
(***************************************************************************)
\* C16: on a Parameter of a list ParameterModel with an upper or a lower limit, every
\* assignment to value of a list with an element outside the limits, be it
\* `p.value = lst` or the assignment an in-place operator of the Parameter ends with
\* (`p += lst`, `p *= k`), raises the error of a limit validator and leaves the value
\* as it was before the statement.
C16_FailedListAssignment ==
    [][(/\ last'.op \in {"assign_value", "iadd", "isub", "imul", "ipow"}
        /\ container.m.is_list
        /\ {"list", "out_of_range"} \subseteq last'.input)
       => (/\ last'.err.kind = "ValidationError"
           /\ last'.err.stage \in {"upper_limit", "lower_limit"}
           /\ container' = container)]_vars

\* both limits are given and, as values of data_type, upper < lower
LimitsReversed(data_type, upper, lower) ==
    /\ upper.t # "none" /\ CastOk(data_type, upper)
    /\ lower.t # "none" /\ CastOk(data_type, lower)
    /\ PyLess(Cast(data_type, upper), Cast(data_type, lower))

\* C18: the construction of a ParameterModel whose limits, as values of its data_type,
\* have upper_limit < lower_limit fails with the ValueError of _validate_limits, whatever
\* the data_type and the other attributes are; no ParameterModel that was built has
\* upper_limit < lower_limit.
C18_ReversedLimitsRejected ==
    [][/\ (/\ last'.op = "construct_model"
           /\ LimitsReversed(last'.input.data_type, last'.input.upper_limit,
                             last'.input.lower_limit))
          => (/\ last'.err = ConstructionError("ValueError", "validate_limits")
              /\ ~pspec'.built)
       /\ pspec'.built
          => ~(/\ pspec'.upper_limit.t # "none"
               /\ pspec'.lower_limit.t # "none"
               /\ PyLess(pspec'.upper_limit, pspec'.lower_limit))]_vars

\* a str ParameterModel with upper_limit "10", lower_limit "9" and further attributes
\* that would fail their own checks was rejected for its limits
C18_Witness ==
    /\ last.op = "construct_model"
    /\ last.input.upper_limit = PyStr(<<"1", "0">>)
    /\ last.input.lower_limit = PyStr(<<"9">>)
    /\ last.input.data_type = "str"
    /\ last.input.others
    /\ last.err = ConstructionError("ValueError", "validate_limits")
    /\ ~pspec.built

\* a scalar container with allowed values
HasAllowedValues(c) == ~c.m.is_list /\ Len(c.m.allowed_values) > 0

\* C17 as stated: on a scalar Parameter with allowed values, the assignment of a value
\* that is no member raises and leaves the value, the assignment of a member succeeds,
\* and the value is always None or a member.
C17_AllowedValuesEnforced ==
    [][/\ (last'.op = "assign_value" /\ HasAllowedValues(container) /\ "int" \in last'.input)
          => /\ "non_member" \in last'.input
                => (Raised(last'.err) /\ container' = container)
             /\ "member" \in last'.input
                => (~Raised(last'.err) /\ container'.value = last'.cast[1])
       /\ HasAllowedValues(container')
          => \/ container'.value.t = "none"
             \/ SeqMember(container'.value.n, container'.m.allowed_values)]_vars

\* C17 amended: the assignment of a member succeeds when the member satisfies the limits
\* of the ParameterModel, and raises the error of a limit validator when it does not.
C17_AllowedValuesWithinLimits ==
    [][/\ (last'.op = "assign_value" /\ HasAllowedValues(container) /\ "int" \in last'.input)
          => /\ "non_member" \in last'.input
                => (Raised(last'.err) /\ container' = container)
             /\ ("member" \in last'.input /\ "out_of_range" \notin last'.input)
                => (~Raised(last'.err) /\ container'.value = last'.cast[1])
             /\ ("member" \in last'.input /\ "out_of_range" \in last'.input)
                => (/\ last'.err.stage \in {"upper_limit", "lower_limit"}
                    /\ container' = container)
       /\ HasAllowedValues(container')
          => \/ container'.value.t = "none"
             \/ SeqMember(container'.value.n, container'.m.allowed_values)]_vars

\* a value that is no member and lies inside the limits was rejected by the
\* allowed-values validator of a scalar container that holds the member 3
C17_Witness ==
    /\ last.op = "assign_value"
    /\ HasAllowedValues(container)
    /\ last.input = {"int", "in_range", "non_member"}
    /\ last.err = Error("ValidationError", "allowed_values", "")
    /\ container.value = IntV(3)

(***************************************************************************)
(* Properties of the containers (SpecLib)                                  *)
(***************************************************************************)
\* C12: the keys of the UUID index of the library are the uuids of the microservices in
\* its primary map, and each key maps to the microservice with that uuid.
C12_UuidIndexMirrorsMap ==
    /\ DOMAIN library.index = {library.microservices[k].uuid : k \in DOMAIN library.microservices}
    /\ \A u \in DOMAIN library.index :
          /\ library.index[u].uuid = u
          /\ \E k \in DOMAIN library.microservices : library.microservices[k] = library.index[u]

\* C13: every command of the microservice names the microservice in its microservice
\* field and is stored under its own name.
C13_MicroserviceNaming ==
    \A k \in DOMAIN micro.commands :
        /\ micro.commands[k].microservice = micro.name
        /\ micro.commands[k].name = k

====
